---- MODULE Spec2Model ----
(***************************************************************************)
(* taskval: the two-tier validator (internal/validator), the command       *)
(* builder and the command executor (internal/beads) and the pipeline      *)
(* run() (cmd/taskval).                                                    *)
(*                                                                         *)
(* Text is modelled as TLC strings where the code only builds or compares  *)
(* it (ids, paths, messages) and as a sequence of atoms where the code     *)
(* searches or rewrites inside it (command arguments, goal and acceptance  *)
(* text): an atom is a maximal piece of text no operation of the code      *)
(* splits.                                                                 *)
(***************************************************************************)
EXTENDS Integers, Sequences, FiniteSets, TLC

VARIABLES
    flags,      \* the command line of run(): mode, output, createBeads, dryRun, epicTitle, args
    data,       \* the input document (the bytes read by readInput)
    pc,         \* position of run() / of the validation harness
    result,     \* *ValidationResult of the first Validate call (NoReturn before)
    result2,    \* *ValidationResult of a second Validate call on the same bytes
    cmds,       \* []BdCommand built by the Creator
    next,       \* index (1-based) of the next command of ExecuteCommands' loop
    idMap,      \* ExecuteCommands' idMap: placeholder -> actual bd ID
    creation,   \* *CreationResult being built by ExecuteCommands
    execErr,    \* the error ExecuteCommands returned (NoError while none)
    procs,      \* every subprocess started so far, in order
    env,        \* the tracker's side: bd on PATH, store initialised, issues created
    stdout,     \* what the dry run printed (the rendered command list)
    exitCode    \* run()'s return value (NoExit while running)

vars == <<flags, data, pc, result, result2, cmds, next, idMap, creation,
          execErr, procs, env, stdout, exitCode>>

-----------------------------------------------------------------------------
(* Bounds of the explored inputs. *)

MaxTasks == 2
MaxDeps == 1

\* task_id values: all match ^[a-z0-9]+(-[a-z0-9]+)*$
TaskIds == {"a", "b", "epic"}

-----------------------------------------------------------------------------
(* Generic helpers. *)

Range(s) == {s[i] : i \in 1..Len(s)}

SeqsUpTo(S, n) == UNION {[1..k -> S] : k \in 0..n}

\* All orders in which a Go map with key set S can be ranged over.
Orders(S) == {s \in [1..Cardinality(S) -> S] : Range(s) = S}

RECURSIVE Join(_, _)
\* strings.Join(elems, sep)
Join(elems, sep) ==
    IF Len(elems) = 0 THEN ""
    ELSE IF Len(elems) = 1 THEN elems[1]
    ELSE elems[1] \o sep \o Join(Tail(elems), sep)

RECURSIVE Flatten(_)
\* concatenation of a sequence of sequences
Flatten(ss) == IF Len(ss) = 0 THEN <<>> ELSE ss[1] \o Flatten(Tail(ss))

\* fmt.Sprintf("%d", n)
Itoa(n) == ToString(n)

-----------------------------------------------------------------------------
(* Document model (TaskGraph, TaskNode, Milestone). *)

\* A contextual field (json.RawMessage): absent (nil), the N/A object, or an array.
RawAbsent == [kind |-> "absent", items |-> <<>>]
RawNA == [kind |-> "na", items |-> <<>>]
RawList(items) == [kind |-> "list", items |-> items]

\* TaskNode.ParseDependsOn / ParseFilesScope: (list, na, err).  isNil tells a nil
\* slice from an empty one; err is the decode error of a value that is neither an
\* array of strings nor an N/A object.
ParseRaw(raw) ==
    CASE raw.kind = "absent" -> [isNil |-> TRUE, items |-> <<>>, na |-> FALSE, err |-> FALSE]
      [] raw.kind = "list" -> [isNil |-> FALSE, items |-> raw.items, na |-> FALSE, err |-> FALSE]
      [] raw.kind = "na" -> [isNil |-> TRUE, items |-> <<>>, na |-> TRUE, err |-> FALSE]
      [] OTHER -> [isNil |-> TRUE, items |-> <<>>, na |-> FALSE, err |-> TRUE]

ParseDependsOn(t) == ParseRaw(t.depends_on)

ParseFilesScope(t) == ParseRaw(t.files_scope)

\* A task whose only free fields are its id and its depends_on; the other fields
\* are those of a well-formed design task.
Task(id, dep) ==
    [task_id |-> id,
     task_name |-> <<"Design", " the ", id, " module">>,
     goal |-> <<"The", id, "module", "returns", "Y">>,
     inputs |-> <<>>,
     outputs |-> <<>>,
     acceptance |-> << <<"Given", "x=5,", "returns", "25">> >>,
     depends_on |-> dep,
     constraints |-> RawList(<<"pure">>),
     files_scope |-> RawList(<<"a.go">>),
     non_goals |-> <<>>,
     error_cases |-> <<>>,
     effects |-> "",
     priority |-> "",
     estimate |-> "",
     notes |-> <<>>]

Graph(tasks, milestones) ==
    [version |-> "0.1.0", milestones |-> milestones, tasks |-> tasks]

\* The depends_on values explored: absent, N/A, or a list of at most MaxDeps ids.
DependsOnValues == {RawAbsent, RawNA} \cup {RawList(s) : s \in SeqsUpTo(TaskIds, MaxDeps)}

TaskValues == {Task(id, dep) : id \in TaskIds, dep \in DependsOnValues}

\* The task lists explored: 1..MaxTasks tasks.
TaskLists == UNION {[1..k -> TaskValues] : k \in 1..MaxTasks}

\* Field paths at which the schema library reports a violation (GetDetailedErrors'
\* keys).  "" is the document root.
SchemaPaths == {"", "/version"}

SchemaMsg(path) == IF path = "" THEN "Required property 'tasks' is missing" ELSE "Value does not match the pattern"

\* The input bytes, seen through what the program reads from them: the document
\* they decode to and the leaf errors the schema of the mode finds in them.
\* unmarshalErr: json.Unmarshal into the Go types rejects bytes the schema accepts.
Documents ==
    {d \in [graph : {Graph(ts, <<>>) : ts \in TaskLists},
            violations : SUBSET SchemaPaths,
            unmarshalErr : BOOLEAN] :
        d.unmarshalErr => d.violations = {}}

-----------------------------------------------------------------------------
(* ValidationError, ValidationResult, AddError. *)

SeverityError == "ERROR"
SeverityWarning == "WARNING"
SeverityInfo == "INFO"

\* The Suggestion field is a fixed text per finding kind, a function of the fields
\* kept here, and is left out.
ValidationError(rule, severity, path, message, context) ==
    [rule |-> rule, severity |-> severity, path |-> path, message |-> message,
     context |-> context]

\* &ValidationResult{Valid: true}; graph is <<>> for a nil pointer, <<g>> otherwise.
NewResult ==
    [valid |-> TRUE,
     errors |-> <<>>,
     stats |-> [total_tasks |-> 0, error_count |-> 0, warning_count |-> 0, info_count |-> 0],
     graph |-> <<>>]

\* AddError setting Valid from the finding being added alone.
AddErrorLatest(vr, ve) ==
    [vr EXCEPT
        !.errors = Append(@, ve),
        !.stats.error_count = IF ve.severity = SeverityError THEN @ + 1 ELSE @,
        !.stats.warning_count = IF ve.severity = SeverityWarning THEN @ + 1 ELSE @,
        !.stats.info_count = IF ve.severity = SeverityInfo THEN @ + 1 ELSE @,
        !.valid = (ve.severity # SeverityError)]

\* ValidationResult.AddError
AddError(vr, ve) ==
    [vr EXCEPT
        !.errors = Append(@, ve),
        !.stats.error_count = IF ve.severity = SeverityError THEN @ + 1 ELSE @,
        !.stats.warning_count = IF ve.severity = SeverityWarning THEN @ + 1 ELSE @,
        !.stats.info_count = IF ve.severity = SeverityInfo THEN @ + 1 ELSE @,
        !.valid = IF ve.severity = SeverityError THEN FALSE ELSE @]

RECURSIVE AddErrors(_, _)
\* the AddError calls of one check, in the order the check makes them
AddErrors(vr, ves) ==
    IF Len(ves) = 0 THEN vr ELSE AddErrors(AddError(vr, ves[1]), Tail(ves))

-----------------------------------------------------------------------------
(* Tier 1: SchemaValidator. *)

\* convertSchemaErrors: one SCHEMA error per entry of GetDetailedErrors' map, in
\* the order `order` in which the range statement visits the map's keys.
convertSchemaErrors(order, vr) ==
    AddErrors(vr,
        [i \in 1..Len(order) |->
            ValidationError("SCHEMA", SeverityError,
                            IF order[i] = "" THEN "$" ELSE order[i],
                            SchemaMsg(order[i]), "")])

\* SchemaValidator.ValidateTaskNode / ValidateTaskGraph: the schema library's
\* verdict on the bytes is doc.violations.
SchemaValidate(doc, order, vr) ==
    IF doc.violations # {} THEN convertSchemaErrors(order, vr) ELSE vr

-----------------------------------------------------------------------------
(* Tier 2: SemanticValidator. *)

\* taskIndex of ValidateTaskGraph: task_id -> index of its last occurrence (0-based).
TaskIndex(graph) ==
    [id \in {graph.tasks[i].task_id : i \in 1..Len(graph.tasks)} |->
        (CHOOSE i \in 1..Len(graph.tasks) :
            /\ graph.tasks[i].task_id = id
            /\ \A j \in (i + 1)..Len(graph.tasks) : graph.tasks[j].task_id # id) - 1]

TaskPath(i, field) == "tasks[" \o Itoa(i - 1) \o "]." \o field

\* checkUniqueTaskIDs (V2); seen[id] holds the index of the latest occurrence so far.
checkUniqueTaskIDs(graph) ==
    LET ts == graph.tasks
        Prev(i) == {j \in 1..(i - 1) : ts[j].task_id = ts[i].task_id}
        Last(S) == CHOOSE j \in S : \A k \in S : k <= j
        One(i) ==
            IF Prev(i) # {}
            THEN << ValidationError("V2", SeverityError, TaskPath(i, "task_id"),
                        "Duplicate task_id '" \o ts[i].task_id \o "' - first occurrence at tasks["
                            \o Itoa(Last(Prev(i)) - 1) \o "].",
                        ts[i].task_id) >>
            ELSE <<>>
    IN  Flatten([i \in 1..Len(ts) |-> One(i)])

\* The reference check resolving only against the tasks listed before the referrer.
checkDependencyReferencesBackward(graph, taskIndex) ==
    LET ts == graph.tasks
        Dep(i, dep) ==
            (IF dep \notin {ts[j].task_id : j \in 1..(i - 1)}
             THEN << ValidationError("V4", SeverityError, TaskPath(i, "depends_on"),
                        "Task '" \o ts[i].task_id \o "' depends on '" \o dep
                            \o "', but no task with that task_id exists in the graph.",
                        dep) >>
             ELSE <<>>)
            \o
            (IF dep = ts[i].task_id
             THEN << ValidationError("V5", SeverityError, TaskPath(i, "depends_on"),
                        "Task '" \o ts[i].task_id \o "' depends on itself - this creates a trivial cycle.",
                        dep) >>
             ELSE <<>>)
    IN  Flatten([i \in 1..Len(ts) |->
            Flatten([k \in 1..Len(ParseDependsOn(ts[i]).items) |->
                        Dep(i, ParseDependsOn(ts[i]).items[k])])])

\* The reference check without its self-dependency test.
checkDependencyReferencesNoSelf(graph, taskIndex) ==
    LET ts == graph.tasks
        Dep(i, dep) ==
            IF dep \notin DOMAIN taskIndex
            THEN << ValidationError("V4", SeverityError, TaskPath(i, "depends_on"),
                        "Task '" \o ts[i].task_id \o "' depends on '" \o dep
                            \o "', but no task with that task_id exists in the graph.",
                        dep) >>
            ELSE <<>>
        One(i) ==
            LET p == ParseDependsOn(ts[i])
            IN  IF p.err
                THEN << ValidationError("V4", SeverityError, TaskPath(i, "depends_on"),
                            "depends_on must be either an array of task IDs or N/A", "") >>
                ELSE Flatten([k \in 1..Len(p.items) |-> Dep(i, p.items[k])])
    IN  Flatten([i \in 1..Len(ts) |-> One(i)])

\* checkDependencyReferences (V4, and the V5 self-dependency error).
checkDependencyReferences(graph, taskIndex) ==
    LET ts == graph.tasks
        Dep(i, dep) ==
            (IF dep \notin DOMAIN taskIndex
             THEN << ValidationError("V4", SeverityError, TaskPath(i, "depends_on"),
                        "Task '" \o ts[i].task_id \o "' depends on '" \o dep
                            \o "', but no task with that task_id exists in the graph.",
                        dep) >>
             ELSE <<>>)
            \o
            (IF dep = ts[i].task_id
             THEN << ValidationError("V5", SeverityError, TaskPath(i, "depends_on"),
                        "Task '" \o ts[i].task_id \o "' depends on itself - this creates a trivial cycle.",
                        dep) >>
             ELSE <<>>)
        One(i) ==
            LET p == ParseDependsOn(ts[i])
            IN  IF p.err
                THEN << ValidationError("V4", SeverityError, TaskPath(i, "depends_on"),
                            "depends_on must be either an array of task IDs or N/A", "") >>
                ELSE Flatten([k \in 1..Len(p.items) |-> Dep(i, p.items[k])])
    IN  Flatten([i \in 1..Len(ts) |-> One(i)])

\* The resolved dependency edges <<dep, dependent>> in the order the build loop
\* meets them (edges to ids no task has are skipped).
ResolvedEdges(graph, taskIndex) ==
    LET ts == graph.tasks
        One(i) ==
            LET p == ParseDependsOn(ts[i])
            IN  IF p.err THEN <<>>
                ELSE Flatten([k \in 1..Len(p.items) |->
                        IF p.items[k] \in DOMAIN taskIndex
                        THEN << <<p.items[k], ts[i].task_id>> >>
                        ELSE <<>>])
    IN  Flatten([i \in 1..Len(ts) |-> One(i)])

RECURSIVE Adjacent(_, _)
\* adj[id]: the dependents appended to id's list, in order
Adjacent(edges, id) ==
    IF Len(edges) = 0 THEN <<>>
    ELSE (IF edges[1][1] = id THEN <<edges[1][2]>> ELSE <<>>) \o Adjacent(Tail(edges), id)

\* inDegree[id] after the build loop
InDegreeOf(edges, id) == Cardinality({k \in 1..Len(edges) : edges[k][2] = id})

RECURSIVE Relax(_, _, _)
\* the inner loop over adj[node]: decrement, enqueue at zero; gives <<inDegree, queue>>
Relax(nbrs, inDegree, queue) ==
    IF Len(nbrs) = 0 THEN <<inDegree, queue>>
    ELSE LET d == [inDegree EXCEPT ![nbrs[1]] = @ - 1]
         IN  Relax(Tail(nbrs), d,
                   IF d[nbrs[1]] = 0 THEN Append(queue, nbrs[1]) ELSE queue)

RECURSIVE KahnCount(_, _, _, _)
\* Kahn's loop of checkDAGAcyclicity: gives <<visited, inDegree>> at its end
KahnCount(queue, inDegree, adj, visited) ==
    IF Len(queue) = 0 THEN <<visited, inDegree>>
    ELSE LET r == Relax(adj[queue[1]], inDegree, Tail(queue))
         IN  KahnCount(r[2], r[1], adj, visited + 1)

\* The keys of inDegree with degree zero before the loop: the range statement
\* seeds the queue with them in some order.
ZeroDegreeIds(graph) ==
    LET ti == TaskIndex(graph)
        edges == ResolvedEdges(graph, ti)
    IN  {id \in DOMAIN ti : InDegreeOf(edges, id) = 0}

\* checkDAGAcyclicity (V5): seedOrder is the order in which the first range over
\* inDegree visits the zero-degree keys.
KahnResult(graph, taskIndex, seedOrder) ==
    LET edges == ResolvedEdges(graph, taskIndex)
        ids == DOMAIN taskIndex
        adj == [id \in ids |-> Adjacent(edges, id)]
        inDegree == [id \in ids |-> InDegreeOf(edges, id)]
    IN  KahnCount(SelectSeq(seedOrder, LAMBDA id : inDegree[id] = 0), inDegree, adj, 0)

\* The keys the second range over inDegree collects (deg > 0), as a set.
CycleMemberIds(graph) ==
    LET ti == TaskIndex(graph)
        r == KahnResult(graph, ti, CHOOSE o \in Orders(ZeroDegreeIds(graph)) : TRUE)
    IN  {id \in DOMAIN ti : r[2][id] > 0}

\* The cycle check reporting only the first member it collects.
checkDAGAcyclicityFirstMember(graph, taskIndex, seedOrder, memberOrder) ==
    LET r == KahnResult(graph, taskIndex, seedOrder)
        cycleMembers == SelectSeq(memberOrder, LAMBDA id : r[2][id] > 0)
        first == IF Len(cycleMembers) > 0 THEN <<cycleMembers[1]>> ELSE <<>>
    IN  IF r[1] < Len(graph.tasks)
        THEN << ValidationError("V5", SeverityError, "tasks",
                    "Dependency graph contains a cycle. " \o Itoa(Len(first))
                        \o " task(s) are involved: [" \o Join(first, ", ") \o "].",
                    Join(first, ", ")) >>
        ELSE <<>>

\* memberOrder is the order in which the second range visits those keys.
checkDAGAcyclicity(graph, taskIndex, seedOrder, memberOrder) ==
    LET r == KahnResult(graph, taskIndex, seedOrder)
        cycleMembers == SelectSeq(memberOrder, LAMBDA id : r[2][id] > 0)
    IN  IF r[1] < Len(graph.tasks)
        THEN << ValidationError("V5", SeverityError, "tasks",
                    "Dependency graph contains a cycle. " \o Itoa(Len(cycleMembers))
                        \o " task(s) are involved: [" \o Join(cycleMembers, ", ") \o "].",
                    Join(cycleMembers, ", ")) >>
        ELSE <<>>

\* strings.ToLower on one atom (the atoms with upper-case letters that occur).
ToLower(a) ==
    CASE a = "Try" -> "try"
      [] a = "Explore" -> "explore"
      [] a = "Look" -> "look"
      [] a = "To" -> "to"
      [] a = "The" -> "the"
      [] a = "Given" -> "given"
      [] a = "Works" -> "works"
      [] a = "Design" -> "design"
      [] a = "Implement" -> "implement"
      [] a = "ADD" -> "add"
      [] a = "Add" -> "add"
      [] a = "Fix" -> "fix"
      [] a = "Critical" -> "critical"
      [] a = "HIGH" -> "high"
      [] a = "Small" -> "small"
      [] OTHER -> a

\* goalForbiddenWords, each as the words its pattern (?i)\bw\b must meet in a row
goalForbiddenWords == << <<"try">>, <<"explore">>, <<"investigate">>, <<"look", "into">> >>

\* regexp MatchString of a whole-word phrase in a text of words; alts[k] is the
\* set of spellings the pattern allows for its k-th word.
MatchWords(alts, text) ==
    \E s \in 0..(Len(text) - Len(alts)) :
        \A k \in 1..Len(alts) : ToLower(text[s + k]) \in alts[k]

\* checkGoalQuality (V6)
checkGoalQuality(graph) ==
    LET ts == graph.tasks
        Word(i, j) ==
            IF MatchWords([k \in 1..Len(goalForbiddenWords[j]) |-> {goalForbiddenWords[j][k]}],
                          ts[i].goal)
            THEN << ValidationError("V6", SeverityError, TaskPath(i, "goal"),
                        "Goal contains the forbidden word/phrase '"
                            \o Join(goalForbiddenWords[j], " ") \o "'.",
                        Join(ts[i].goal, " ")) >>
            ELSE <<>>
        To(i) ==
            IF Len(ts[i].goal) >= 2 /\ ts[i].goal[1] = "To"
            THEN << ValidationError("V6", SeverityWarning, TaskPath(i, "goal"),
                        "Goal starts with 'To ...' which suggests an activity rather than a testable outcome.",
                        Join(ts[i].goal, " ")) >>
            ELSE <<>>
    IN  Flatten([i \in 1..Len(ts) |->
            Flatten([j \in 1..Len(goalForbiddenWords) |-> Word(i, j)]) \o To(i)])

\* vaguePatterns of checkAcceptanceQuality, word by word
vaguePatterns ==
    << <<{"work", "works"}, {"correctly"}>>, <<{"is"}, {"correct"}>>, <<{"is"}, {"good"}>>,
       <<{"look", "looks"}, {"right"}>>, <<{"properly"}>>, <<{"as"}, {"expected"}>>,
       <<{"should"}, {"work"}>>, <<{"is"}, {"fine"}>> >>

vagueNames ==
    <<"works correctly", "is correct", "is good", "looks right",
      "properly", "as expected", "should work", "is fine">>

\* checkAcceptanceQuality (V7)
checkAcceptanceQuality(graph) ==
    LET ts == graph.tasks
        One(i, j, k) ==
            IF MatchWords(vaguePatterns[k], ts[i].acceptance[j])
            THEN << ValidationError("V7", SeverityWarning,
                        "tasks[" \o Itoa(i - 1) \o "].acceptance[" \o Itoa(j - 1) \o "]",
                        "Acceptance criterion contains the vague phrase '" \o vagueNames[k] \o "'.",
                        Join(ts[i].acceptance[j], " ")) >>
            ELSE <<>>
    IN  Flatten([i \in 1..Len(ts) |->
            Flatten([j \in 1..Len(ts[i].acceptance) |->
                Flatten([k \in 1..Len(vaguePatterns) |-> One(i, j, k)])])])

\* checkContextualFields (V9)
checkContextualFields(graph) ==
    LET ts == graph.tasks
        contextualFields == <<"depends_on", "constraints", "files_scope">>
        Raw(i, f) ==
            CASE f = "depends_on" -> ts[i].depends_on
              [] f = "constraints" -> ts[i].constraints
              [] f = "files_scope" -> ts[i].files_scope
        One(i, f) ==
            IF Raw(i, f).kind = "absent"
            THEN << ValidationError("V9", SeverityWarning, TaskPath(i, f),
                        "Contextual field '" \o f \o "' is missing from task '"
                            \o ts[i].task_id \o "'.",
                        "") >>
            ELSE <<>>
    IN  Flatten([i \in 1..Len(ts) |->
            Flatten([k \in 1..Len(contextualFields) |-> One(i, contextualFields[k])])])

implVerbs == {"implement", "add", "fix", "create", "build", "write"}

\* checkFilesScope (V10).  The name's first atom is the verb when the name starts
\* with one.
checkFilesScope(graph) ==
    LET ts == graph.tasks
        isImplTask(i) == Len(ts[i].task_name) > 0 /\ ToLower(ts[i].task_name[1]) \in implVerbs
        One(i) ==
            LET p == ParseFilesScope(ts[i])
            IN  IF isImplTask(i) /\ ~p.err /\ p.isNil /\ ~p.na
                THEN << ValidationError("V10", SeverityWarning, TaskPath(i, "files_scope"),
                            "Task '" \o ts[i].task_id
                                \o "' appears to be an implementation task but has no files_scope defined.",
                            "") >>
                ELSE <<>>
    IN  Flatten([i \in 1..Len(ts) |-> One(i)])

\* checkMilestones
checkMilestones(graph, taskIndex) ==
    LET ms == graph.milestones
        Prev(i) == {j \in 1..(i - 1) : ms[j].name = ms[i].name}
        Last(S) == CHOOSE j \in S : \A k \in S : k <= j
        MPath(i, f) == "milestones[" \o Itoa(i - 1) \o "]." \o f
        Dup(i) ==
            IF Prev(i) # {}
            THEN << ValidationError("MILESTONE", SeverityError, MPath(i, "name"),
                        "Duplicate milestone name '" \o ms[i].name
                            \o "' - first occurrence at milestones[" \o Itoa(Last(Prev(i)) - 1) \o "].",
                        "") >>
            ELSE <<>>
        Tid(i, tid) ==
            IF tid \notin DOMAIN taskIndex
            THEN << ValidationError("MILESTONE", SeverityError, MPath(i, "task_ids"),
                        "Milestone '" \o ms[i].name \o "' references task_id '" \o tid
                            \o "', but no task with that ID exists in the graph.",
                        "") >>
            ELSE <<>>
        MDep(i, dep) ==
            IF dep \notin {ms[j].name : j \in 1..Len(ms)}
            THEN << ValidationError("MILESTONE", SeverityError, MPath(i, "depends_on_milestones"),
                        "Milestone '" \o ms[i].name \o "' depends on milestone '" \o dep
                            \o "', but no milestone with that name exists.",
                        "") >>
            ELSE <<>>
    IN  Flatten([i \in 1..Len(ms) |->
            Dup(i) \o Flatten([k \in 1..Len(ms[i].task_ids) |-> Tid(i, ms[i].task_ids[k])])])
        \o
        Flatten([i \in 1..Len(ms) |->
            Flatten([k \in 1..Len(ms[i].depends_on_milestones) |->
                MDep(i, ms[i].depends_on_milestones[k])])])

\* ValidateTaskGraph giving up at the first check that leaves the result invalid.
ValidateTaskGraphShortCircuit(graph, vr, seedOrder, memberOrder) ==
    LET taskIndex == TaskIndex(graph)
        Step(r, found) == IF r.valid THEN AddErrors(r, found) ELSE r
        r0 == [vr EXCEPT !.stats.total_tasks = Len(graph.tasks)]
        r1 == Step(r0, checkUniqueTaskIDs(graph))
        r2 == Step(r1, checkDependencyReferences(graph, taskIndex))
        r3 == Step(r2, checkDAGAcyclicity(graph, taskIndex, seedOrder, memberOrder))
        r4 == Step(r3, checkGoalQuality(graph))
        r5 == Step(r4, checkAcceptanceQuality(graph))
        r6 == Step(r5, checkContextualFields(graph))
        r7 == Step(r6, checkFilesScope(graph))
    IN  Step(r7, checkMilestones(graph, taskIndex))

\* SemanticValidator.ValidateTaskGraph: the eight checks, in order, on one result.
ValidateTaskGraph(graph, vr, seedOrder, memberOrder) ==
    LET taskIndex == TaskIndex(graph)
        r0 == [vr EXCEPT !.stats.total_tasks = Len(graph.tasks)]
        r1 == AddErrors(r0, checkUniqueTaskIDs(graph))
        r2 == AddErrors(r1, checkDependencyReferences(graph, taskIndex))
        r3 == AddErrors(r2, checkDAGAcyclicity(graph, taskIndex, seedOrder, memberOrder))
        r4 == AddErrors(r3, checkGoalQuality(graph))
        r5 == AddErrors(r4, checkAcceptanceQuality(graph))
        r6 == AddErrors(r5, checkContextualFields(graph))
        r7 == AddErrors(r6, checkFilesScope(graph))
    IN  AddErrors(r7, checkMilestones(graph, taskIndex))

-----------------------------------------------------------------------------
(* Validate: Tier 1, parse, Tier 2. *)

ModeSingleTask == "task"
ModeTaskGraph == "graph"

\* The graph json.Unmarshal builds from the bytes in the given mode: the document
\* itself, or its single node wrapped in a graph of size one.
ParsedGraph(doc, mode) ==
    IF mode = ModeSingleTask
    THEN Graph(<<doc.graph.tasks[1]>>, <<>>)
    ELSE doc.graph

NoReturn == [called |-> FALSE, err |-> FALSE, res |-> <<>>]

\* Validate without the tier gate: Tier 2 runs whatever Tier 1 recorded.
ValidateUngated(doc, mode, schemaOrder, seedOrder, memberOrder) ==
    LET t1 == SchemaValidate(doc, schemaOrder, NewResult)
        graph == ParsedGraph(doc, mode)
        t2 == ValidateTaskGraph(graph, t1, seedOrder, memberOrder)
    IN  IF mode \notin {ModeSingleTask, ModeTaskGraph} \/ doc.unmarshalErr
        THEN [called |-> TRUE, err |-> TRUE, res |-> <<>>]
        ELSE [called |-> TRUE, err |-> FALSE,
              res |-> << IF t2.valid THEN [t2 EXCEPT !.graph = <<graph>>] ELSE t2 >>]

\* Validate attaching the parsed graph as soon as it is parsed.
ValidateAttachAlways(doc, mode, schemaOrder, seedOrder, memberOrder) ==
    LET t1 == SchemaValidate(doc, schemaOrder, NewResult)
        graph == ParsedGraph(doc, mode)
        t2 == ValidateTaskGraph(graph, t1, seedOrder, memberOrder)
    IN  IF mode \notin {ModeSingleTask, ModeTaskGraph}
        THEN [called |-> TRUE, err |-> TRUE, res |-> <<>>]
        ELSE IF ~t1.valid
        THEN [called |-> TRUE, err |-> FALSE, res |-> <<t1>>]
        ELSE IF doc.unmarshalErr
        THEN [called |-> TRUE, err |-> TRUE, res |-> <<>>]
        ELSE [called |-> TRUE, err |-> FALSE, res |-> << [t2 EXCEPT !.graph = <<graph>>] >>]

\* Validate(data, mode): (result, err).  schemaOrder, seedOrder and memberOrder are
\* the orders in which the three range-over-map statements it reaches visit
\* their maps.
Validate(doc, mode, schemaOrder, seedOrder, memberOrder) ==
    LET t1 == SchemaValidate(doc, schemaOrder, NewResult)
        graph == ParsedGraph(doc, mode)
        t2 == ValidateTaskGraph(graph, t1, seedOrder, memberOrder)
    IN  IF mode \notin {ModeSingleTask, ModeTaskGraph}
        THEN [called |-> TRUE, err |-> TRUE, res |-> <<>>]
        ELSE IF ~t1.valid
        THEN [called |-> TRUE, err |-> FALSE, res |-> <<t1>>]
        ELSE IF doc.unmarshalErr
        THEN [called |-> TRUE, err |-> TRUE, res |-> <<>>]
        ELSE [called |-> TRUE, err |-> FALSE,
              res |-> << IF t2.valid THEN [t2 EXCEPT !.graph = <<graph>>] ELSE t2 >>]

\* Every outcome one call of Validate can have on the same bytes.
ValidateOutcomes(doc, mode) ==
    IF doc.violations # {}
    THEN {Validate(doc, mode, so, <<>>, <<>>) : so \in Orders(doc.violations)}
    ELSE IF doc.unmarshalErr \/ mode \notin {ModeSingleTask, ModeTaskGraph}
    THEN {Validate(doc, mode, <<>>, <<>>, <<>>)}
    ELSE LET g == ParsedGraph(doc, mode)
         IN  {Validate(doc, mode, <<>>, zo, mo) :
                 zo \in Orders(ZeroDegreeIds(g)), mo \in Orders(CycleMemberIds(g))}

-----------------------------------------------------------------------------
(* internal/beads: field mapping. *)

\* MapPriority comparing the input as given, without lower-casing it.
MapPriorityExact(priority) ==
    CASE priority = "critical" -> 0
      [] priority = "high" -> 1
      [] priority = "medium" -> 2
      [] priority = "low" -> 3
      [] OTHER -> 2

\* MapPriority
MapPriority(priority) ==
    CASE ToLower(priority) = "critical" -> 0
      [] ToLower(priority) = "high" -> 1
      [] ToLower(priority) = "medium" -> 2
      [] ToLower(priority) = "low" -> 3
      [] OTHER -> 2

\* MapEstimate
MapEstimate(estimate) ==
    CASE ToLower(estimate) = "trivial" -> 15
      [] ToLower(estimate) = "small" -> 60
      [] ToLower(estimate) = "medium" -> 240
      [] ToLower(estimate) = "large" -> 480
      [] OTHER -> 0

\* parseStringArrayOrNA giving the N/A marker back as an item.
parseStringArrayOrNAKeep(raw) ==
    IF raw.kind = "list" THEN raw.items ELSE IF raw.kind = "na" THEN <<"N/A">> ELSE <<>>

\* parseStringArrayOrNA: the array, or nil (here <<>>) for absent, N/A, anything else
parseStringArrayOrNA(raw) == IF raw.kind = "list" THEN raw.items ELSE <<>>

\* ComposeDescription, as the atoms of the text it writes (the back quotes around
\* the type are left out of the fixed text)
ComposeDescription(task) ==
    LET constraints == parseStringArrayOrNA(task.constraints)
        In(x) == <<"- **", x.name, "** (", x.type, "): ", x.constraints, " -- Source: ", x.source, "\n">>
        Out(x) == <<"- **", x.name, "** (", x.type, "): ", x.constraints, " -- Dest: ", x.destination, "\n">>
        Err(x) == <<"- **", x.condition, "**: ", x.behavior, " -> ", x.output, "\n">>
    IN  task.goal
        \o (IF Len(task.inputs) > 0
            THEN <<"\n\n## Inputs\n">> \o Flatten([k \in 1..Len(task.inputs) |-> In(task.inputs[k])])
            ELSE <<>>)
        \o (IF Len(task.outputs) > 0
            THEN <<"\n## Outputs\n">> \o Flatten([k \in 1..Len(task.outputs) |-> Out(task.outputs[k])])
            ELSE <<>>)
        \o (IF Len(constraints) > 0
            THEN <<"\n## Constraints\n">>
                 \o Flatten([k \in 1..Len(constraints) |-> <<"- ", constraints[k], "\n">>])
            ELSE <<>>)
        \o (IF Len(task.non_goals) > 0
            THEN <<"\n## Non-Goals\n">>
                 \o Flatten([k \in 1..Len(task.non_goals) |-> <<"- ", task.non_goals[k], "\n">>])
            ELSE <<>>)
        \o (IF Len(task.error_cases) > 0
            THEN <<"\n## Error Cases\n">>
                 \o Flatten([k \in 1..Len(task.error_cases) |-> Err(task.error_cases[k])])
            ELSE <<>>)

\* FormatAcceptance
FormatAcceptance(criteria) ==
    Flatten([i \in 1..Len(criteria) |->
        (IF i > 1 THEN <<"\n">> ELSE <<>>) \o <<"- ">> \o criteria[i]])

\* "<" + id + "-id>"
Placeholder(id) == "<" \o id \o "-id>"

EpicPlaceholder == "<epic-id>"

\* json.Marshal's escaping of one atom: the angle brackets become u003c and u003e
\* escapes, so a
\* placeholder-shaped text does not survive in the JSON.
JsonEscape(a) ==
    IF \E id \in TaskIds : a = Placeholder(id)
    THEN LET id == CHOOSE x \in TaskIds : a = Placeholder(x)
         IN  "\\u003c" \o id \o "-id\\u003e"
    ELSE a

\* BuildTemplateMetadata: the JSON text of the _template envelope (json.Marshal of
\* strings and slices of strings does not fail).
BuildTemplateMetadata(task) ==
    LET filesScope == parseStringArrayOrNA(task.files_scope)
        In(x) == <<x.name, x.type, x.constraints, x.source>>
        Out(x) == <<x.name, x.type, x.constraints, x.destination>>
    IN  <<"{\"_template\":{\"version\":\"0.2.0\",\"task_id\":", task.task_id, ",\"files_scope\":">>
        \o [k \in 1..Len(filesScope) |-> JsonEscape(filesScope[k])]
        \o <<",\"effects\":", JsonEscape(task.effects), ",\"inputs\":">>
        \o [k \in 1..Len(Flatten([j \in 1..Len(task.inputs) |-> In(task.inputs[j])])) |->
                JsonEscape(Flatten([j \in 1..Len(task.inputs) |-> In(task.inputs[j])])[k])]
        \o <<",\"outputs\":">>
        \o [k \in 1..Len(Flatten([j \in 1..Len(task.outputs) |-> Out(task.outputs[j])])) |->
                JsonEscape(Flatten([j \in 1..Len(task.outputs) |-> Out(task.outputs[j])])[k])]
        \o <<"}}">>

-----------------------------------------------------------------------------
(* internal/beads: the command builder. *)

TitleMax == 500

\* truncate(s, maxLen), counted in atoms
truncate(s, maxLen) == IF Len(s) <= maxLen THEN s ELSE SubSeq(s, 1, maxLen)

\* One argument holding one piece of text.
Arg(a) == <<a>>

BdCommand(args, taskID, type, depTaskID, depOnID) ==
    [Args |-> args, TaskID |-> taskID, Type |-> type, DepTaskID |-> depTaskID,
     DepOnID |-> depOnID]

\* buildTaskCreateArgs passing the mapped estimate on whatever it is.
buildTaskCreateArgsAlwaysEstimate(task, parentID) ==
    <<Arg("create"), Arg("--title"), truncate(task.task_name, TitleMax),
      Arg("--type"), Arg("task"), Arg("--description"), ComposeDescription(task)>>
    \o (IF FormatAcceptance(task.acceptance) # <<>>
        THEN <<Arg("--acceptance"), FormatAcceptance(task.acceptance)>> ELSE <<>>)
    \o <<Arg("--priority"), Arg(Itoa(MapPriority(task.priority)))>>
    \o <<Arg("--estimate"), Arg(Itoa(MapEstimate(task.estimate)))>>
    \o (IF task.notes # <<>> THEN <<Arg("--notes"), task.notes>> ELSE <<>>)
    \o (IF parentID # "" THEN <<Arg("--parent"), Arg(parentID)>> ELSE <<>>)
    \o <<Arg("--labels"), Arg("taskval-managed"), Arg("--silent")>>

\* Creator.buildTaskCreateArgs; parentID is "" for no parent.
buildTaskCreateArgs(task, parentID) ==
    <<Arg("create"), Arg("--title"), truncate(task.task_name, TitleMax),
      Arg("--type"), Arg("task"), Arg("--description"), ComposeDescription(task)>>
    \o (IF FormatAcceptance(task.acceptance) # <<>>
        THEN <<Arg("--acceptance"), FormatAcceptance(task.acceptance)>> ELSE <<>>)
    \o <<Arg("--priority"), Arg(Itoa(MapPriority(task.priority)))>>
    \o (IF MapEstimate(task.estimate) > 0
        THEN <<Arg("--estimate"), Arg(Itoa(MapEstimate(task.estimate)))>> ELSE <<>>)
    \o (IF task.notes # <<>> THEN <<Arg("--notes"), task.notes>> ELSE <<>>)
    \o (IF parentID # "" THEN <<Arg("--parent"), Arg(parentID)>> ELSE <<>>)
    \o <<Arg("--labels"), Arg("taskval-managed"), Arg("--silent")>>

\* The title resolved with the first milestone ranked above the caller's override.
resolveEpicTitleMilestoneFirst(c, graph) ==
    IF Len(graph.milestones) > 0 THEN <<"Task Graph: ", graph.milestones[1].name>>
    ELSE IF c.EpicTitle # <<>> THEN c.EpicTitle
    ELSE IF c.Filename # "" /\ c.Filename # "-" THEN <<"Task Graph: ", c.Filename>>
    ELSE <<"Task Graph: (stdin)">>

\* Creator.resolveEpicTitle; c is the Creator (EpicTitle, Filename).
resolveEpicTitle(c, graph) ==
    IF c.EpicTitle # <<>> THEN c.EpicTitle
    ELSE IF Len(graph.milestones) > 0 THEN <<"Task Graph: ", graph.milestones[1].name>>
    ELSE IF c.Filename # "" /\ c.Filename # "-" THEN <<"Task Graph: ", c.Filename>>
    ELSE <<"Task Graph: (stdin)">>

RECURSIVE BestPriority(_, _)
\* the loop of resolveGraphPriority
BestPriority(tasks, best) ==
    IF Len(tasks) = 0 THEN best
    ELSE BestPriority(Tail(tasks),
                      IF MapPriority(tasks[1].priority) < best
                      THEN MapPriority(tasks[1].priority) ELSE best)

DefaultPriority == 2

\* Creator.resolveGraphPriority
resolveGraphPriority(graph) == BestPriority(graph.tasks, DefaultPriority)

RECURSIVE KahnOrder(_, _, _, _, _)
\* Kahn's loop of topologicalSort: the indices (1-based) of the tasks appended to
\* `ordered`
KahnOrder(queue, inDegree, adj, taskIndex, ordered) ==
    IF Len(queue) = 0 THEN ordered
    ELSE LET r == Relax(adj[queue[1]], inDegree, Tail(queue))
         IN  KahnOrder(r[2], r[1], adj, taskIndex, Append(ordered, taskIndex[queue[1]] + 1))

\* The tasks in document order, unsorted.
documentOrder(graph) == [i \in 1..Len(graph.tasks) |-> i]

\* topologicalSort seeding its queue from the last task to the first.
topologicalSortSeedReversed(graph) ==
    LET taskIndex == TaskIndex(graph)
        edges == ResolvedEdges(graph, taskIndex)
        ids == DOMAIN taskIndex
        adj == [id \in ids |-> Adjacent(edges, id)]
        inDegree == [id \in ids |-> InDegreeOf(edges, id)]
        n == Len(graph.tasks)
        seed == SelectSeq([i \in 1..n |-> graph.tasks[n + 1 - i].task_id],
                          LAMBDA id : inDegree[id] = 0)
    IN  KahnOrder(seed, inDegree, adj, taskIndex, <<>>)

\* topologicalSort: the queue is seeded in document order.
topologicalSort(graph) ==
    LET taskIndex == TaskIndex(graph)
        edges == ResolvedEdges(graph, taskIndex)
        ids == DOMAIN taskIndex
        adj == [id \in ids |-> Adjacent(edges, id)]
        inDegree == [id \in ids |-> InDegreeOf(edges, id)]
        seed == SelectSeq([i \in 1..Len(graph.tasks) |-> graph.tasks[i].task_id],
                          LAMBDA id : inDegree[id] = 0)
    IN  KahnOrder(seed, inDegree, adj, taskIndex, <<>>)

\* Creator.BuildSingleTaskCommands
BuildSingleTaskCommands(task) ==
    << BdCommand(buildTaskCreateArgs(task, ""), task.task_id, "create-task", "", ""),
       BdCommand(<<Arg("update"), Arg(Placeholder(task.task_id)), Arg("--design"),
                   BuildTemplateMetadata(task)>>,
                 task.task_id, "update-design", "", "") >>

\* BuildGraphCommands naming the dependency before the dependent in dep add.
BuildGraphCommandsDepSwapped(c, graph) ==
    LET ordered == [k \in 1..Len(topologicalSort(graph)) |-> graph.tasks[topologicalSort(graph)[k]]]
        epicArgs == <<Arg("create"), Arg("--title"), resolveEpicTitle(c, graph),
                      Arg("--type"), Arg("epic"),
                      Arg("--priority"), Arg(Itoa(resolveGraphPriority(graph))),
                      Arg("--labels"), Arg("taskval-managed"), Arg("--silent")>>
        DepCmds(task) ==
            LET p == ParseDependsOn(task)
            IN  IF p.err THEN <<>>
                ELSE [k \in 1..Len(p.items) |->
                        BdCommand(<<Arg("dep"), Arg("add"), Arg(Placeholder(p.items[k])),
                                    Arg(Placeholder(task.task_id))>>,
                                  "", "dep-add", task.task_id, p.items[k])]
    IN  << BdCommand(epicArgs, "", "create-epic", "", "") >>
        \o [k \in 1..Len(ordered) |->
                BdCommand(buildTaskCreateArgs(ordered[k], EpicPlaceholder),
                          ordered[k].task_id, "create-task", "", "")]
        \o Flatten([k \in 1..Len(ordered) |-> DepCmds(ordered[k])])
        \o [k \in 1..Len(ordered) |->
                BdCommand(<<Arg("update"), Arg(Placeholder(ordered[k].task_id)), Arg("--design"),
                            BuildTemplateMetadata(ordered[k])>>,
                          ordered[k].task_id, "update-design", "", "")]

\* Creator.BuildGraphCommands
BuildGraphCommands(c, graph) ==
    LET ordered == [k \in 1..Len(topologicalSort(graph)) |-> graph.tasks[topologicalSort(graph)[k]]]
        epicArgs == <<Arg("create"), Arg("--title"), resolveEpicTitle(c, graph),
                      Arg("--type"), Arg("epic"),
                      Arg("--priority"), Arg(Itoa(resolveGraphPriority(graph))),
                      Arg("--labels"), Arg("taskval-managed"), Arg("--silent")>>
        DepCmds(task) ==
            LET p == ParseDependsOn(task)
            IN  IF p.err THEN <<>>
                ELSE [k \in 1..Len(p.items) |->
                        BdCommand(<<Arg("dep"), Arg("add"), Arg(Placeholder(task.task_id)),
                                    Arg(Placeholder(p.items[k]))>>,
                                  "", "dep-add", task.task_id, p.items[k])]
    IN  << BdCommand(epicArgs, "", "create-epic", "", "") >>
        \o [k \in 1..Len(ordered) |->
                BdCommand(buildTaskCreateArgs(ordered[k], EpicPlaceholder),
                          ordered[k].task_id, "create-task", "", "")]
        \o Flatten([k \in 1..Len(ordered) |-> DepCmds(ordered[k])])
        \o [k \in 1..Len(ordered) |->
                BdCommand(<<Arg("update"), Arg(Placeholder(ordered[k].task_id)), Arg("--design"),
                            BuildTemplateMetadata(ordered[k])>>,
                          ordered[k].task_id, "update-design", "", "")]

\* FormatDryRunOutput: one line per command that is not an update-design, holding
\* the command's arguments as built (formatArgs only adds quotes for display),
\* then the summary counts.
FormatDryRunOutput(commands) ==
    LET Count(type) == Cardinality({k \in 1..Len(commands) : commands[k].Type = type})
        shown == SelectSeq(commands, LAMBDA c : c.Type # "update-design")
    IN  [lines |-> [k \in 1..Len(shown) |-> shown[k].Args],
         epicCount |-> Count("create-epic"),
         taskCount |-> Count("create-task"),
         depCount |-> Count("dep-add")]

-----------------------------------------------------------------------------
(* internal/beads: the command executor. *)

\* replaceIDs: in every argument, every occurrence of a key of idMap is replaced by
\* its value.  The values are tracker ids, which hold no placeholder, so the order
\* in which the map is ranged over does not change the outcome.
replaceIDs(args, map) ==
    [i \in 1..Len(args) |->
        [k \in 1..Len(args[i]) |->
            IF args[i][k] \in DOMAIN map THEN map[args[i][k]] ELSE args[i][k]]]

\* idMap[key] of a Go map: "" when the key is missing
Lookup(map, key) == IF key \in DOMAIN map THEN map[key] ELSE ""

\* The "extract title from args" loops of ExecuteCommands.
TitleOf(args, old) ==
    LET at == {i \in 1..(Len(args) - 1) : args[i] = Arg("--title")}
    IN  IF at = {} THEN old ELSE args[(CHOOSE i \in at : \A j \in at : i <= j) + 1]

\* The identifier the tracker prints for its n-th issue.
BdID(n) == "bd-" \o Itoa(n)

IsCreate(type) == type \in {"create-epic", "create-task"}

\* The switch counting task creations only.
RecordTasksOnly(res, map, cmd, args, bdID) ==
    LET r == CASE cmd.Type = "create-epic" ->
                    [res EXCEPT !.EpicID = bdID, !.EpicTitle = TitleOf(cmd.Args, @)]
               [] cmd.Type = "create-task" ->
                    [res EXCEPT !.TaskIDs = (cmd.TaskID :> bdID) @@ @,
                                !.TaskTitles = (cmd.TaskID :> TitleOf(cmd.Args, <<>>)) @@ @,
                                !.Created = @ + 1]
               [] OTHER -> res
    IN  [r EXCEPT !.Commands = Append(@, args)]

\* The "record results" switch of ExecuteCommands for a command that succeeded
\* with stdout bdID; args are the substituted arguments.
Record(res, map, cmd, args, bdID) ==
    LET r == CASE cmd.Type = "create-epic" ->
                    [res EXCEPT !.EpicID = bdID,
                                !.EpicTitle = TitleOf(cmd.Args, @),
                                !.Created = @ + 1]
               [] cmd.Type = "create-task" ->
                    [res EXCEPT !.TaskIDs = (cmd.TaskID :> bdID) @@ @,
                                !.TaskTitles = (cmd.TaskID :> TitleOf(cmd.Args,
                                        IF cmd.TaskID \in DOMAIN @ THEN @[cmd.TaskID] ELSE <<>>)) @@ @,
                                !.Created = @ + 1]
               [] cmd.Type = "dep-add" ->
                    [res EXCEPT !.Deps = @ + 1,
                                !.DepsDetail = Append(@,
                                    [TaskBdID |-> Lookup(map, Placeholder(cmd.DepTaskID)),
                                     DepBdID |-> Lookup(map, Placeholder(cmd.DepOnID))])]
               [] OTHER -> res
    IN  [r EXCEPT !.Commands = Append(@, args)]

\* idMap keyed by the bare task id instead of its placeholder.
RecordBareID(map, cmd, bdID) ==
    CASE cmd.Type = "create-epic" -> (EpicPlaceholder :> bdID) @@ map
      [] cmd.Type = "create-task" -> (cmd.TaskID :> bdID) @@ map
      [] OTHER -> map

\* The idMap writes of the same switch.
RecordID(map, cmd, bdID) ==
    CASE cmd.Type = "create-epic" -> (EpicPlaceholder :> bdID) @@ map
      [] cmd.Type = "create-task" -> (Placeholder(cmd.TaskID) :> bdID) @@ map
      [] OTHER -> map

-----------------------------------------------------------------------------
(* State common to the specifications. *)

NoExit == -1

DefaultFlags ==
    [mode |-> "graph", output |-> "text", createBeads |-> FALSE, dryRun |-> FALSE,
     epicTitle |-> <<>>, args |-> <<"f.json">>]

NewCreationResult ==
    [EpicID |-> "", EpicTitle |-> <<>>, TaskIDs |-> <<>>, TaskTitles |-> <<>>,
     Commands |-> <<>>, Created |-> 0, Deps |-> 0, DepsDetail |-> <<>>]

NoError == [failed |-> FALSE, args |-> <<>>, stderr |-> "", created |-> 0]

\* Nothing validated, built or run yet.
Idle ==
    /\ result = NoReturn
    /\ result2 = NoReturn
    /\ cmds = <<>>
    /\ next = 1
    /\ idMap = <<>>
    /\ creation = NewCreationResult
    /\ execErr = NoError
    /\ procs = <<>>
    /\ stdout = <<>>
    /\ exitCode = NoExit

-----------------------------------------------------------------------------
(* Validate called on input bytes; and called a second time on the same bytes. *)

\* The documents a mode is given: a single node in task mode.
InputsOf(mode) ==
    {d \in Documents : mode = ModeSingleTask => Len(d.graph.tasks) = 1}

InitValidate ==
    /\ \E m \in {ModeSingleTask, ModeTaskGraph} : flags = [DefaultFlags EXCEPT !.mode = m]
    /\ data \in InputsOf(flags.mode)
    /\ pc = "validate"
    /\ env = [bdOnPath |-> TRUE, initialized |-> TRUE, issued |-> 0]
    /\ Idle

\* result, err := validator.Validate(data, valMode)
ValidateFirst ==
    /\ pc = "validate"
    /\ \E r \in ValidateOutcomes(data, flags.mode) : result' = r
    /\ pc' = "revalidate"
    /\ UNCHANGED <<flags, data, result2, cmds, next, idMap, creation, execErr, procs,
                   env, stdout, exitCode>>

\* the same call again, on the same bytes
ValidateSecond ==
    /\ pc = "revalidate"
    /\ \E r \in ValidateOutcomes(data, flags.mode) : result2' = r
    /\ pc' = "compared"
    /\ UNCHANGED <<flags, data, result, cmds, next, idMap, creation, execErr, procs,
                   env, stdout, exitCode>>

SpecValidate == InitValidate /\ [][ValidateFirst]_vars

NextTwice == ValidateFirst \/ ValidateSecond

SpecTwice == InitValidate /\ [][NextTwice]_vars

-----------------------------------------------------------------------------
(* The pipeline: run() and runBeadsCreation(). *)

\* The tracker's possible stderr texts on a failing command.
StderrTexts == {"", "database is locked"}

\* runBdCommand's error text: stderr, or err.Error() when stderr is empty
ErrMsg(stderr) == IF stderr = "" THEN "exit status 1" ELSE stderr

\* A subprocess: what it was started for, the command's index, its arguments, whether
\* it exited zero, its stdout, its stderr.
Proc(kind, index, args, ok, out, stderr) ==
    [kind |-> kind, index |-> index, args |-> args, ok |-> ok, out |-> out,
     stderr |-> stderr]

\* PreFlightCheck's bd list --limit 0
Probe(ok) == Proc("probe", 0, <<Arg("list"), Arg("--limit"), Arg("0")>>, ok, "", "")

\* flag.Parse and the flag checks of run()
ParseFlags ==
    /\ pc = "flags"
    /\ IF \/ flags.mode \notin {"task", "graph"}
          \/ flags.output \notin {"text", "json"}
          \/ (flags.dryRun /\ ~flags.createBeads)
       THEN exitCode' = 2 /\ pc' = "done"
       ELSE exitCode' = exitCode /\ pc' = "read"
    /\ UNCHANGED <<flags, data, result, result2, cmds, next, idMap, creation, execErr,
                   procs, env, stdout>>

\* readInput(flag.Args()); the file "missing.json" cannot be read.
ReadInput ==
    /\ pc = "read"
    /\ IF Len(flags.args) # 1 \/ flags.args[1] = "missing.json"
       THEN exitCode' = 2 /\ pc' = "done"
       ELSE exitCode' = exitCode /\ pc' = "validate"
    /\ UNCHANGED <<flags, data, result, result2, cmds, next, idMap, creation, execErr,
                   procs, env, stdout>>

\* run() returning 1 for an internal validator error as for a failed validation.
RunValidateErrAsInvalid ==
    /\ pc = "validate"
    /\ \E r \in ValidateOutcomes(data, flags.mode) :
        /\ result' = r
        /\ IF r.err \/ ~r.res[1].valid THEN exitCode' = 1 /\ pc' = "done"
           ELSE IF flags.createBeads THEN exitCode' = exitCode /\ pc' = "beads"
           ELSE exitCode' = 0 /\ pc' = "done"
    /\ UNCHANGED <<flags, data, result2, cmds, next, idMap, creation, execErr, procs,
                   env, stdout>>

\* run(), from the call to Validate to the call to runBeadsCreation or the return
RunValidate ==
    /\ pc = "validate"
    /\ \E r \in ValidateOutcomes(data, flags.mode) :
        /\ result' = r
        /\ IF r.err THEN exitCode' = 2 /\ pc' = "done"
           ELSE IF ~r.res[1].valid THEN exitCode' = 1 /\ pc' = "done"
           ELSE IF flags.createBeads THEN exitCode' = exitCode /\ pc' = "beads"
           ELSE exitCode' = 0 /\ pc' = "done"
    /\ UNCHANGED <<flags, data, result2, cmds, next, idMap, creation, execErr, procs,
                   env, stdout>>

\* PreFlightCheck with the probe's exit status ignored.
PreFlightUnchecked ==
    /\ pc = "beads"
    /\ IF result.res[1].graph = <<>>
       THEN exitCode' = 2 /\ pc' = "done" /\ procs' = procs
       ELSE IF flags.dryRun
       THEN exitCode' = exitCode /\ pc' = "build" /\ procs' = procs
       ELSE IF ~env.bdOnPath
       THEN exitCode' = 2 /\ pc' = "done" /\ procs' = procs
       ELSE /\ procs' = Append(procs, Probe(env.initialized))
            /\ exitCode' = exitCode /\ pc' = "build"
    /\ UNCHANGED <<flags, data, result, result2, cmds, next, idMap, creation, execErr,
                   env, stdout>>

\* PreFlightCheck run in a dry run too.
PreFlightAlways ==
    /\ pc = "beads"
    /\ IF result.res[1].graph = <<>>
       THEN exitCode' = 2 /\ pc' = "done" /\ procs' = procs
       ELSE IF ~env.bdOnPath
       THEN exitCode' = 2 /\ pc' = "done" /\ procs' = procs
       ELSE /\ procs' = Append(procs, Probe(env.initialized))
            /\ IF env.initialized
               THEN exitCode' = exitCode /\ pc' = "build"
               ELSE exitCode' = 2 /\ pc' = "done"
    /\ UNCHANGED <<flags, data, result, result2, cmds, next, idMap, creation, execErr,
                   env, stdout>>

\* runBeadsCreation, up to the Creator: the nil-graph check and PreFlightCheck
\* (exec.LookPath, then the subprocess bd list --limit 0), skipped in a dry run
PreFlight ==
    /\ pc = "beads"
    /\ IF result.res[1].graph = <<>>
       THEN exitCode' = 2 /\ pc' = "done" /\ procs' = procs
       ELSE IF flags.dryRun
       THEN exitCode' = exitCode /\ pc' = "build" /\ procs' = procs
       ELSE IF ~env.bdOnPath
       THEN exitCode' = 2 /\ pc' = "done" /\ procs' = procs
       ELSE /\ procs' = Append(procs, Probe(env.initialized))
            /\ IF env.initialized
               THEN exitCode' = exitCode /\ pc' = "build"
               ELSE exitCode' = 2 /\ pc' = "done"
    /\ UNCHANGED <<flags, data, result, result2, cmds, next, idMap, creation, execErr,
                   env, stdout>>

\* runBeadsCreation: creator.BuildSingleTaskCommands / BuildGraphCommands
BuildCommands ==
    /\ pc = "build"
    /\ LET graph == result.res[1].graph[1]
           c == [DryRun |-> flags.dryRun, EpicTitle |-> flags.epicTitle,
                 Filename |-> flags.args[1]]
       IN  cmds' = IF flags.mode = ModeSingleTask
                   THEN BuildSingleTaskCommands(graph.tasks[1])
                   ELSE BuildGraphCommands(c, graph)
    /\ pc' = IF flags.dryRun THEN "dryrun" ELSE "execute"
    /\ UNCHANGED <<flags, data, result, result2, next, idMap, creation, execErr, procs,
                   env, stdout, exitCode>>

\* runBeadsCreation: the dry-run branch
DryRun ==
    /\ pc = "dryrun"
    /\ stdout' = <<FormatDryRunOutput(cmds)>>
    /\ exitCode' = 0
    /\ pc' = "done"
    /\ UNCHANGED <<flags, data, result, result2, cmds, next, idMap, creation, execErr,
                   procs, env>>

\* The loop going on to the next command after a failure.
ExecuteNextKeepGoing ==
    /\ pc = "execute"
    /\ next <= Len(cmds)
    /\ LET cmd == cmds[next]
           args == replaceIDs(cmd.Args, idMap)
       IN  \E ok \in BOOLEAN, stderr \in StderrTexts :
                /\ procs' = Append(procs, Proc("command", next, args, ok, "", stderr))
                /\ execErr' = IF ok THEN execErr
                              ELSE [failed |-> TRUE, args |-> args, stderr |-> ErrMsg(stderr),
                                    created |-> creation.Created]
                /\ next' = next + 1
    /\ UNCHANGED <<flags, data, result, result2, cmds, stdout, env, creation, idMap,
                   exitCode, pc>>

\* One iteration of ExecuteCommands' loop: substitute, run the subprocess, and
\* either return the partial result with the error (run() then returns 2) or
\* record the outcome.  The tracker decides whether the command fails.
ExecuteNext ==
    /\ pc = "execute"
    /\ next <= Len(cmds)
    /\ LET cmd == cmds[next]
           args == replaceIDs(cmd.Args, idMap)
       IN  \E ok \in BOOLEAN, stderr \in StderrTexts :
                IF ok
                THEN LET bdID == IF IsCreate(cmd.Type) THEN BdID(env.issued + 1) ELSE ""
                     IN  /\ stderr = ""
                         /\ procs' = Append(procs, Proc("command", next, args, TRUE, bdID, ""))
                         /\ env' = [env EXCEPT !.issued = IF IsCreate(cmd.Type) THEN @ + 1 ELSE @]
                         /\ creation' = Record(creation, idMap, cmd, args, bdID)
                         /\ idMap' = RecordID(idMap, cmd, bdID)
                         /\ next' = next + 1
                         /\ UNCHANGED <<execErr, exitCode, pc>>
                ELSE /\ procs' = Append(procs, Proc("command", next, args, FALSE, "", stderr))
                     /\ execErr' = [failed |-> TRUE, args |-> args, stderr |-> ErrMsg(stderr),
                                    created |-> creation.Created]
                     /\ exitCode' = 2
                     /\ pc' = "done"
                     /\ UNCHANGED <<env, creation, idMap, next>>
    /\ UNCHANGED <<flags, data, result, result2, cmds, stdout>>

\* ExecuteCommands returns (result, nil) after the last command; run() returns 0.
ExecuteReturn ==
    /\ pc = "execute"
    /\ next > Len(cmds)
    /\ exitCode' = 0
    /\ pc' = "done"
    /\ UNCHANGED <<flags, data, result, result2, cmds, next, idMap, creation, execErr,
                   procs, env, stdout>>

\* The documents the pipeline is run on: a valid single node, a valid graph listed
\* against its dependency order, a graph with a task named epic, a cyclic graph,
\* bytes with two schema violations, bytes the Go types reject.
SampleDocuments ==
    LET Doc(ts, v, u) == [graph |-> Graph(ts, <<>>), violations |-> v, unmarshalErr |-> u]
    IN  {Doc(<<Task("a", RawNA)>>, {}, FALSE),
         Doc(<<Task("b", RawList(<<"a">>)), Task("a", RawAbsent)>>, {}, FALSE),
         Doc(<<Task("epic", RawNA), Task("a", RawList(<<"epic">>))>>, {}, FALSE),
         Doc(<<Task("a", RawList(<<"b">>)), Task("b", RawList(<<"a">>))>>, {}, FALSE),
         Doc(<<Task("a", RawNA)>>, SchemaPaths, FALSE),
         Doc(<<Task("a", RawNA)>>, {}, TRUE)}

CommandLines ==
    [mode : {"task", "graph", "tree"},
     output : {"text", "json", "xml"},
     createBeads : BOOLEAN,
     dryRun : BOOLEAN,
     epicTitle : {<<>>},
     args : {<<>>, <<"f.json">>, <<"-">>, <<"missing.json">>, <<"f.json", "g.json">>}]

Init ==
    /\ flags \in CommandLines
    /\ data \in SampleDocuments
    /\ flags.mode = ModeSingleTask => Len(data.graph.tasks) = 1
    /\ env \in [bdOnPath : BOOLEAN, initialized : BOOLEAN, issued : {0}]
    /\ pc = "flags"
    /\ Idle

Next ==
    \/ ParseFlags
    \/ ReadInput
    \/ RunValidate
    \/ PreFlight
    \/ BuildCommands
    \/ DryRun
    \/ ExecuteNext
    \/ ExecuteReturn

Spec == Init /\ [][Next]_vars

-----------------------------------------------------------------------------
(* The builder and the executor on every validated document of the bounds:    *)
(* runBeadsCreation after validation and the preflight checks have passed.    *)

InitExec ==
    /\ \E m \in {ModeSingleTask, ModeTaskGraph} :
            flags = [DefaultFlags EXCEPT !.mode = m, !.createBeads = TRUE]
    /\ data \in InputsOf(flags.mode)
    /\ result \in ValidateOutcomes(data, flags.mode)
    /\ ~result.err
    /\ result.res[1].valid
    /\ pc = "build"
    /\ env = [bdOnPath |-> TRUE, initialized |-> TRUE, issued |-> 0]
    /\ procs = <<Probe(TRUE)>>
    /\ result2 = NoReturn
    /\ cmds = <<>>
    /\ next = 1
    /\ idMap = <<>>
    /\ creation = NewCreationResult
    /\ execErr = NoError
    /\ stdout = <<>>
    /\ exitCode = NoExit

NextExec == BuildCommands \/ ExecuteNext \/ ExecuteReturn

SpecExec == InitExec /\ [][NextExec]_vars

-----------------------------------------------------------------------------
(* The builder and the executor on valid graphs whose notes may hold text of  *)
(* the form of a placeholder.                                                 *)

\* Notes of a task: none, and free text that mentions "<epic-id>" or "<a-id>".
NotesValues == {<<>>, <<"Child of ", "<epic-id>">>, <<"Follows ", "<a-id>", " closely">>}

SubstTasks ==
    {[Task(id, dep) EXCEPT !.notes = n] :
        id \in {"a", "b"}, dep \in {RawNA, RawList(<<"a">>)}, n \in NotesValues}

InitSubst ==
    /\ flags = [DefaultFlags EXCEPT !.mode = ModeTaskGraph, !.createBeads = TRUE]
    /\ \E ts \in UNION {[1..k -> SubstTasks] : k \in 1..MaxTasks} :
            data = [graph |-> Graph(ts, <<>>), violations |-> {}, unmarshalErr |-> FALSE]
    /\ result \in ValidateOutcomes(data, flags.mode)
    /\ ~result.err
    /\ result.res[1].valid
    /\ pc = "build"
    /\ env = [bdOnPath |-> TRUE, initialized |-> TRUE, issued |-> 0]
    /\ procs = <<Probe(TRUE)>>
    /\ result2 = NoReturn
    /\ cmds = <<>>
    /\ next = 1
    /\ idMap = <<>>
    /\ creation = NewCreationResult
    /\ execErr = NoError
    /\ stdout = <<>>
    /\ exitCode = NoExit

SpecSubst == InitSubst /\ [][NextExec]_vars

-----------------------------------------------------------------------------
(* The semantic validator on a parsed graph: sem.ValidateTaskGraph(graph,     *)
(* result) as Validate calls it, on a result no schema error was added to.    *)

\* sem.ValidateTaskGraph(&graph, result)
RunSemantic ==
    /\ pc = "semantic"
    /\ \E zo \in Orders(ZeroDegreeIds(data.graph)), mo \in Orders(CycleMemberIds(data.graph)) :
            result' = [called |-> TRUE, err |-> FALSE,
                       res |-> <<ValidateTaskGraph(data.graph, NewResult, zo, mo)>>]
    /\ pc' = "checked"
    /\ UNCHANGED <<flags, data, result2, cmds, next, idMap, creation, execErr, procs,
                   env, stdout, exitCode>>

\* The longest run of tasks explored for repeated ids.
MaxSame == 3

\* Graphs of 1..MaxSame tasks over two ids, with no dependencies.
UniqueGraphs ==
    LET tv == {Task(id, dep) : id \in {"a", "b"}, dep \in {RawAbsent, RawNA}}
    IN  {Graph(ts, <<>>) : ts \in UNION {[1..k -> tv] : k \in 1..MaxSame}}

InitUnique ==
    /\ flags = DefaultFlags
    /\ \E g \in UniqueGraphs : data = [graph |-> g, violations |-> {}, unmarshalErr |-> FALSE]
    /\ pc = "semantic"
    /\ env = [bdOnPath |-> TRUE, initialized |-> TRUE, issued |-> 0]
    /\ Idle

SpecUnique == InitUnique /\ [][RunSemantic]_vars

-----------------------------------------------------------------------------
(* The semantic validator on graphs in which every one of its rules has       *)
(* something to find.                                                         *)

\* A task every quality rule finds something in: a goal that starts with "To"
\* and holds a forbidden word, a vague acceptance criterion, an implementation
\* verb in the name, and neither constraints nor files_scope.
SloppyTask(id, dep) ==
    [Task(id, dep) EXCEPT
        !.task_name = <<"Implement", " the ", id, " module">>,
        !.goal = <<"To", "try", "the", id, "module">>,
        !.acceptance = << <<"It", "works", "correctly">> >>,
        !.constraints = RawAbsent,
        !.files_scope = RawAbsent]

RuleTasks ==
    LET deps == {RawNA, RawList(<<"a">>), RawList(<<"b">>), RawList(<<"a", "a">>)}
    IN  {Task(id, dep) : id \in {"a", "b"}, dep \in deps}
        \cup {SloppyTask(id, dep) : id \in {"a", "b"}, dep \in deps}

\* No milestone, one milestone, and two milestones of one name of which the
\* second depends on a milestone that does not exist.
RuleMilestones ==
    {<<>>,
     << [name |-> "M1", depends_on_milestones |-> <<>>, task_ids |-> <<"a">>] >>,
     << [name |-> "M1", depends_on_milestones |-> <<>>, task_ids |-> <<"a">>],
        [name |-> "M1", depends_on_milestones |-> <<"M0">>, task_ids |-> <<"b">>] >>}

RuleGraphs ==
    {Graph(ts, ms) : ts \in UNION {[1..k -> RuleTasks] : k \in 1..MaxTasks},
                     ms \in RuleMilestones}

InitRules ==
    /\ flags = DefaultFlags
    /\ \E g \in RuleGraphs : data = [graph |-> g, violations |-> {}, unmarshalErr |-> FALSE]
    /\ pc = "semantic"
    /\ env = [bdOnPath |-> TRUE, initialized |-> TRUE, issued |-> 0]
    /\ Idle

SpecRules == InitRules /\ [][RunSemantic]_vars

-----------------------------------------------------------------------------
(* The semantic validator on tasks that vary in the first word of their name  *)
(* and in their files_scope.                                                  *)

\* First words of a task name: implementation verbs in three spellings, and a
\* word that is none.
ScopeNames == {"Implement", "ADD", "fix", "Design"}

\* files_scope absent, marked N/A, an empty array, a populated array.
ScopeValues == {RawAbsent, RawNA, RawList(<<>>), RawList(<<"a.go">>)}

ScopeTask(id, first, scope) ==
    [Task(id, RawNA) EXCEPT !.task_name = <<first, " the ", id, " module">>,
                            !.files_scope = scope]

\* Graphs of 1..MaxTasks tasks with distinct ids.
ScopeGraphs ==
    LET ids == <<"a", "b", "epic">>
        kinds == [first : ScopeNames, scope : ScopeValues]
    IN  {Graph([i \in 1..Len(c) |-> ScopeTask(ids[i], c[i].first, c[i].scope)], <<>>) :
            c \in UNION {[1..n -> kinds] : n \in 1..MaxTasks}}

InitScope ==
    /\ flags = DefaultFlags
    /\ \E g \in ScopeGraphs : data = [graph |-> g, violations |-> {}, unmarshalErr |-> FALSE]
    /\ pc = "semantic"
    /\ env = [bdOnPath |-> TRUE, initialized |-> TRUE, issued |-> 0]
    /\ Idle

SpecScope == InitScope /\ [][RunSemantic]_vars

-----------------------------------------------------------------------------
(* Both Kahn loops on any graph: the cycle check as Tier 2 runs it, and the   *)
(* exported BuildGraphCommands called on the graph whatever the check said.   *)

RECURSIVE KahnTrace(_, _, _, _)
\* A Kahn loop (pop the head, decrement its dependents, enqueue at zero) with the
\* ids it dequeues written down: gives <<dequeued, inDegree>> at its end.
KahnTrace(queue, inDegree, adj, dequeued) ==
    IF Len(queue) = 0 THEN <<dequeued, inDegree>>
    ELSE LET r == Relax(adj[queue[1]], inDegree, Tail(queue))
         IN  KahnTrace(r[2], r[1], adj, Append(dequeued, queue[1]))

\* The loop of checkDAGAcyclicity, seeded by the range over inDegree.
checkDAGAcyclicityTrace(graph, seedOrder) ==
    LET taskIndex == TaskIndex(graph)
        edges == ResolvedEdges(graph, taskIndex)
        ids == DOMAIN taskIndex
        adj == [id \in ids |-> Adjacent(edges, id)]
        inDegree == [id \in ids |-> InDegreeOf(edges, id)]
    IN  KahnTrace(SelectSeq(seedOrder, LAMBDA id : inDegree[id] = 0), inDegree, adj, <<>>)

\* The loop of topologicalSort, seeded by the loop over graph.Tasks.
topologicalSortTrace(graph) ==
    LET taskIndex == TaskIndex(graph)
        edges == ResolvedEdges(graph, taskIndex)
        ids == DOMAIN taskIndex
        adj == [id \in ids |-> Adjacent(edges, id)]
        inDegree == [id \in ids |-> InDegreeOf(edges, id)]
        seed == SelectSeq([i \in 1..Len(graph.tasks) |-> graph.tasks[i].task_id],
                          LAMBDA id : inDegree[id] = 0)
    IN  KahnTrace(seed, inDegree, adj, <<>>)

\* Graphs of 1..MaxTasks tasks over two ids, with cycles, self-dependencies,
\* dangling references, repeated entries and repeated ids among them.
KahnGraphs ==
    LET tv == {Task(id, dep) : id \in {"a", "b"},
                               dep \in {RawNA, RawList(<<"a">>), RawList(<<"b">>),
                                        RawList(<<"a", "a">>)}}
    IN  {Graph(ts, <<>>) : ts \in UNION {[1..k -> tv] : k \in 1..MaxTasks}}

InitKahn ==
    /\ flags = [DefaultFlags EXCEPT !.createBeads = TRUE]
    /\ \E g \in KahnGraphs : data = [graph |-> g, violations |-> {}, unmarshalErr |-> FALSE]
    /\ pc = "semantic"
    /\ env = [bdOnPath |-> TRUE, initialized |-> TRUE, issued |-> 0]
    /\ Idle

\* Creator.BuildGraphCommands called on the graph as it is.
BuildAnyGraph ==
    /\ pc = "checked"
    /\ cmds' = BuildGraphCommands([DryRun |-> flags.dryRun, EpicTitle |-> flags.epicTitle,
                                   Filename |-> flags.args[1]], data.graph)
    /\ pc' = "built"
    /\ UNCHANGED <<flags, data, result, result2, next, idMap, creation, execErr, procs,
                   env, stdout, exitCode>>

NextKahn == RunSemantic \/ BuildAnyGraph

SpecKahn == InitKahn /\ [][NextKahn]_vars

-----------------------------------------------------------------------------
(* AddError called any number of times on a fresh result, and run()'s branch  *)
(* on result.Valid that follows validation.                                   *)

\* The longest sequence of findings explored.
MaxFindings == 3

\* Findings of every severity.
Findings ==
    {ValidationError(rule, sev, "tasks[0].goal", "finding", "") :
        rule \in {"V6", "V9"}, sev \in {SeverityError, SeverityWarning, SeverityInfo}}

InitAddError ==
    /\ \E cb \in BOOLEAN : flags = [DefaultFlags EXCEPT !.createBeads = cb]
    /\ data = [graph |-> Graph(<<Task("a", RawNA)>>, <<>>), violations |-> {},
               unmarshalErr |-> FALSE]
    /\ result = [called |-> TRUE, err |-> FALSE, res |-> <<NewResult>>]
    /\ pc = "adding"
    /\ env = [bdOnPath |-> TRUE, initialized |-> TRUE, issued |-> 0]
    /\ result2 = NoReturn
    /\ cmds = <<>>
    /\ next = 1
    /\ idMap = <<>>
    /\ creation = NewCreationResult
    /\ execErr = NoError
    /\ procs = <<>>
    /\ stdout = <<>>
    /\ exitCode = NoExit

\* result.AddError(ve)
AddOne ==
    /\ pc = "adding"
    /\ Len(result.res[1].errors) < MaxFindings
    /\ \E ve \in Findings : result' = [result EXCEPT !.res[1] = AddError(@, ve)]
    /\ UNCHANGED <<flags, data, pc, result2, cmds, next, idMap, creation, execErr, procs,
                   env, stdout, exitCode>>

\* run() after validation: return 1 on !result.Valid, else go on to
\* runBeadsCreation when --create-beads is set, else return 0
HandOn ==
    /\ pc = "adding"
    /\ IF ~result.res[1].valid THEN exitCode' = 1 /\ pc' = "done"
       ELSE IF flags.createBeads THEN exitCode' = exitCode /\ pc' = "beads"
       ELSE exitCode' = 0 /\ pc' = "done"
    /\ UNCHANGED <<flags, data, result, result2, cmds, next, idMap, creation, execErr,
                   procs, env, stdout>>

NextAddError == AddOne \/ HandOn

SpecAddError == InitAddError /\ [][NextAddError]_vars

-----------------------------------------------------------------------------
(* The command builder on tasks that vary in priority, estimate and the      *)
(* fields the description is composed from, for every Creator and with or    *)
(* without a milestone. The builder and the mapping functions are exported   *)
(* and take any task (their tests build tasks by hand), so priority and      *)
(* estimate also range over strings the schema's enum refuses: these reach   *)
(* the default arms of MapPriority and MapEstimate.                          *)

PriorityValues == {"", "critical", "high", "medium", "low", "urgent", "HIGH", "Critical"}

EstimateValues == {"", "trivial", "small", "medium", "large", "unknown", "huge", "Small"}

\* The fields ComposeDescription makes sections from.
SectionFields == {"inputs", "outputs", "constraints", "non_goals", "error_cases"}

\* A task with the given priority and estimate in which exactly the fields of
\* `filled` hold a (one-element) list; constraints holds `other` when not filled.
BuildTask(priority, estimate, filled, other) ==
    [Task("a", RawNA) EXCEPT
        !.priority = priority,
        !.estimate = estimate,
        !.inputs = IF "inputs" \in filled
                   THEN << [name |-> "x", type |-> "int", constraints |-> "x > 0",
                            source |-> "caller"] >>
                   ELSE <<>>,
        !.outputs = IF "outputs" \in filled
                    THEN << [name |-> "y", type |-> "int", constraints |-> "y = x * x",
                             destination |-> "return"] >>
                    ELSE <<>>,
        !.constraints = IF "constraints" \in filled THEN RawList(<<"pure">>) ELSE other,
        !.non_goals = IF "non_goals" \in filled THEN <<"caching">> ELSE <<>>,
        !.error_cases = IF "error_cases" \in filled
                        THEN << [condition |-> "x < 0", behavior |-> "reject",
                                 output |-> "error"] >>
                        ELSE <<>>]

\* Every priority with every estimate on a bare and on a full task, and every
\* combination of filled fields with every kind of unfilled constraints.
BuildTasks ==
    {BuildTask(p, e, f, RawNA) : p \in PriorityValues, e \in EstimateValues,
                                 f \in {{}, SectionFields}}
    \cup {BuildTask("", "", f, o) : f \in SUBSET SectionFields,
                                    o \in {RawAbsent, RawNA, RawList(<<>>)}}

MilestoneLists ==
    {<<>>, << [name |-> "M1", depends_on_milestones |-> <<>>, task_ids |-> <<"a">>] >>}

InitBuild ==
    /\ \E m \in {ModeSingleTask, ModeTaskGraph}, et \in {<<>>, <<"Custom Title">>},
          fn \in {"plan.json", "-", ""} :
            /\ flags = [DefaultFlags EXCEPT !.mode = m, !.createBeads = TRUE,
                                            !.epicTitle = et, !.args = <<fn>>]
            /\ m = ModeSingleTask => (et = <<>> /\ fn = "plan.json")
    /\ \E t \in BuildTasks, ms \in MilestoneLists :
            /\ data = [graph |-> Graph(<<t>>, ms), violations |-> {}, unmarshalErr |-> FALSE]
            /\ flags.mode = ModeSingleTask => ms = <<>>
    /\ result \in ValidateOutcomes(data, flags.mode)
    /\ ~result.err
    /\ result.res[1].valid
    /\ pc = "build"
    /\ env = [bdOnPath |-> TRUE, initialized |-> TRUE, issued |-> 0]
    /\ procs = <<Probe(TRUE)>>
    /\ result2 = NoReturn
    /\ cmds = <<>>
    /\ next = 1
    /\ idMap = <<>>
    /\ creation = NewCreationResult
    /\ execErr = NoError
    /\ stdout = <<>>
    /\ exitCode = NoExit

SpecBuild == InitBuild /\ [][BuildCommands]_vars

-----------------------------------------------------------------------------
(* Properties. *)

\* A Validate call that returned a result (no internal error).
Returned(r) == r.called /\ ~r.err

Rules(vr) == {vr.errors[i].rule : i \in 1..Len(vr.errors)}

HasError(vr) == \E i \in 1..Len(vr.errors) : vr.errors[i].severity = SeverityError

\* C1: a result that holds a SCHEMA error holds no finding of any other rule, and
\* the semantic validator was not invoked on it (ValidateTaskGraph's first
\* statement sets stats.total_tasks to the number of tasks, which is at least 1).
C1_TierGate ==
    Returned(result) =>
        ("SCHEMA" \in Rules(result.res[1]) =>
            /\ Rules(result.res[1]) = {"SCHEMA"}
            /\ result.res[1].stats.total_tasks = 0)

\* A schema-invalid document whose tasks would also break semantic rules (a
\* duplicate id or a dangling or self reference) has been validated.
C1_Witness ==
    /\ Returned(result)
    /\ "SCHEMA" \in Rules(result.res[1])
    /\ LET g == ParsedGraph(data, flags.mode)
       IN  checkUniqueTaskIDs(g) \o checkDependencyReferences(g, TaskIndex(g)) # <<>>

\* C2: in every returned result the parsed graph is attached exactly when the
\* result is valid; an attached graph is the graph parsed from the bytes and the
\* result then holds no ERROR finding of either tier.
C2_GraphIffValid ==
    Returned(result) =>
        /\ (result.res[1].graph # <<>>) <=> result.res[1].valid
        /\ result.res[1].graph # <<>> =>
                /\ ~HasError(result.res[1])
                /\ result.res[1].graph[1] = ParsedGraph(data, flags.mode)
        /\ HasError(result.res[1]) => result.res[1].graph = <<>>

\* A document passed both tiers with a warning and carries its graph.
C2_Witness ==
    /\ Returned(result)
    /\ result.res[1].valid
    /\ result.res[1].stats.warning_count > 0
    /\ result.res[1].graph # <<>>

\* C10: two Validate calls on the same bytes in the same mode give the same error
\* list (same entries in the same order).
C10_SameErrorList ==
    (pc = "compared" /\ Returned(result) /\ Returned(result2)) =>
        result.res[1].errors = result2.res[1].errors

\* The subprocesses started for commands of the list, in the order started.
CommandProcs == SelectSeq(procs, LAMBDA p : p.kind = "command")

\* The positions of the create-task commands of task id in the built list.
CreateIndices(id) ==
    {k \in 1..Len(cmds) : cmds[k].Type = "create-task" /\ cmds[k].TaskID = id}

\* C3: in the list BuildGraphCommands emits for a validated graph (a DAG with
\* unique ids and resolved references), every task has exactly one create-task
\* command, and for every task T and every id D of T's depends_on the index of
\* create(D) is strictly smaller than the index of create(T).
C3_TopologicalCreateOrder ==
    (flags.mode = ModeTaskGraph /\ cmds # <<>>) =>
        LET tasks == result.res[1].graph[1].tasks
        IN  \A i \in 1..Len(tasks) :
                /\ Cardinality(CreateIndices(tasks[i].task_id)) = 1
                /\ \A d \in Range(ParseDependsOn(tasks[i]).items) :
                        /\ CreateIndices(d) # {}
                        /\ \A kd \in CreateIndices(d), kt \in CreateIndices(tasks[i].task_id) :
                                kd < kt

\* The list was built for a graph that lists a task before a task it depends on.
C3_Witness ==
    /\ flags.mode = ModeTaskGraph
    /\ cmds # <<>>
    /\ LET tasks == result.res[1].graph[1].tasks
       IN  \E i, j \in 1..Len(tasks) :
                i < j /\ tasks[j].task_id \in Range(ParseDependsOn(tasks[i]).items)

\* The positions of a command's identifier arguments: the value of --parent, the
\* two arguments of dep add, the target of update.
IdArgPositions(cmd) ==
    {j \in 2..Len(cmd.Args) : cmd.Args[j - 1] = Arg("--parent")}
    \cup (IF cmd.Type = "dep-add" THEN {3, 4} ELSE {})
    \cup (IF cmd.Type = "update-design" THEN {2} ELSE {})

\* The placeholder a successful create command enters into the substitution table.
EnteredBy(cmd) == IF cmd.Type = "create-epic" THEN EpicPlaceholder ELSE Placeholder(cmd.TaskID)

\* C4: every command that was run had, in each identifier argument, a placeholder
\* that an earlier successful create command had entered into the substitution
\* table, and ran with that argument replaced by the identifier the tracker
\* returned to the latest such create command.
C4_NoUnproducedIdentifier ==
    \A n \in 1..Len(CommandProcs) :
        LET p == CommandProcs[n]
            cmd == cmds[p.index]
        IN  \A j \in IdArgPositions(cmd) :
                LET entered == {m \in 1..(n - 1) :
                                    /\ CommandProcs[m].ok
                                    /\ IsCreate(cmds[CommandProcs[m].index].Type)
                                    /\ Arg(EnteredBy(cmds[CommandProcs[m].index])) = cmd.Args[j]}
                IN  /\ entered # {}
                    /\ p.args[j] # cmd.Args[j]
                    /\ \E m \in entered :
                            /\ \A o \in entered : o <= m
                            /\ CommandProcs[m].out # ""
                            /\ p.args[j] = Arg(CommandProcs[m].out)

\* A dep add and an update have been run.
C4_Witness ==
    /\ \E n \in 1..Len(CommandProcs) : cmds[CommandProcs[n].index].Type = "dep-add"
    /\ \E n \in 1..Len(CommandProcs) : cmds[CommandProcs[n].index].Type = "update-design"

\* C5: the n-th subprocess started for the list runs the n-th command, so the
\* commands run in list order and none runs twice; only the last one started may
\* have failed, and when it has, execution has stopped for good with the later
\* commands not run.
C5_FailFast ==
    /\ \A n \in 1..Len(CommandProcs) :
            /\ CommandProcs[n].index = n
            /\ n < Len(CommandProcs) => CommandProcs[n].ok
    /\ Len(CommandProcs) <= Len(cmds)
    /\ IF execErr.failed
       THEN /\ pc = "done"
            /\ Len(CommandProcs) = next
            /\ ~CommandProcs[next].ok
       ELSE /\ Len(CommandProcs) = next - 1
            /\ \A n \in 1..Len(CommandProcs) : CommandProcs[n].ok

\* A command in the middle of the list failed after earlier ones had run.
C5_Witness ==
    /\ execErr.failed
    /\ 1 < next
    /\ next < Len(cmds)

\* C6: when the k-th command has failed, the number of created issues reported
\* (in the result and in the error) is the number of create commands among
\* commands 1..k-1, the epic and task identifiers recorded are exactly those
\* the earlier create commands returned, and the error holds the failing
\* command's arguments as run and its stderr.
C6_PartialResult ==
    execErr.failed =>
        LET k == next
            creates == {i \in 1..(k - 1) : IsCreate(cmds[i].Type)}
            epics == {i \in creates : cmds[i].Type = "create-epic"}
            tasks == creates \ epics
        IN  /\ creation.Created = Cardinality(creates)
            /\ execErr.created = Cardinality(creates)
            /\ IF epics = {} THEN creation.EpicID = ""
               ELSE \E i \in epics : creation.EpicID = CommandProcs[i].out
            /\ DOMAIN creation.TaskIDs = {cmds[i].TaskID : i \in tasks}
            /\ \A i \in tasks : creation.TaskIDs[cmds[i].TaskID] = CommandProcs[i].out
            /\ execErr.args = CommandProcs[k].args
            /\ execErr.args = replaceIDs(cmds[k].Args, idMap)
            /\ execErr.stderr = ErrMsg(CommandProcs[k].stderr)
            /\ CommandProcs[k].stderr # "" => execErr.stderr = CommandProcs[k].stderr
            /\ (Len(cmds) = 5 /\ k = 3 /\ creates = {1, 2}) => execErr.created = 2

\* The third command of a five-command list failed after two creates.
C6_Witness ==
    /\ execErr.failed
    /\ Len(cmds) = 5
    /\ next = 3
    /\ IsCreate(cmds[1].Type) /\ IsCreate(cmds[2].Type)
    /\ CommandProcs[3].stderr # ""

\* C7: whenever a command of the list (a create, dep add or update) has been
\* run, validation had returned a result with no ERROR finding, the executable
\* is on PATH, and the first subprocess started was the read-only probe of the
\* backing store, which succeeded.
C7_MutateOnlyAfterChecks ==
    CommandProcs # <<>> =>
        /\ Returned(result)
        /\ result.res[1].valid
        /\ ~HasError(result.res[1])
        /\ flags.createBeads
        /\ env.bdOnPath
        /\ env.initialized
        /\ procs[1] = Probe(TRUE)
        /\ \A n \in 2..Len(procs) : procs[n].kind = "command"

\* A create command has been run by the pipeline.
C7_Witness ==
    \E n \in 1..Len(CommandProcs) : IsCreate(cmds[CommandProcs[n].index].Type)

\* The command list runBeadsCreation builds from the validated graph.
BuiltList ==
    LET graph == result.res[1].graph[1]
        c == [DryRun |-> flags.dryRun, EpicTitle |-> flags.epicTitle,
              Filename |-> flags.args[1]]
    IN  IF flags.mode = ModeSingleTask
        THEN BuildSingleTaskCommands(graph.tasks[1])
        ELSE BuildGraphCommands(c, graph)

UsageError ==
    \/ flags.mode \notin {"task", "graph"}
    \/ flags.output \notin {"text", "json"}
    \/ (flags.dryRun /\ ~flags.createBeads)
    \/ Len(flags.args) # 1
    \/ flags.args[1] = "missing.json"

\* C9: run() has returned exactly when an exit code is set, and the code is
\* 2 exactly on a usage error, an internal validator error, a failed preflight
\* check or a failed tracker command; 1 exactly when validation completed with
\* at least one ERROR; 0 exactly when validation passed and creation was not
\* requested, was a dry run, or ran every command successfully.
C9_ExitCodes ==
    /\ exitCode \in {NoExit, 0, 1, 2}
    /\ (pc = "done") <=> (exitCode # NoExit)
    /\ pc = "done" =>
        LET internal == result.called /\ result.err
            failed == Returned(result) /\ HasError(result.res[1])
            passed == Returned(result) /\ ~HasError(result.res[1])
            preflight == /\ passed /\ flags.createBeads /\ ~flags.dryRun
                         /\ (~env.bdOnPath \/ ~env.initialized)
            allRun == /\ cmds # <<>>
                      /\ Len(CommandProcs) = Len(cmds)
                      /\ \A n \in 1..Len(CommandProcs) : CommandProcs[n].ok
        IN  /\ ~result.called <=> UsageError
            /\ exitCode = 2 <=> (UsageError \/ internal \/ preflight \/ execErr.failed)
            /\ exitCode = 1 <=> failed
            /\ exitCode = 0 <=> (passed /\ (~flags.createBeads \/ flags.dryRun \/ allRun))
            /\ execErr.failed => exitCode \notin {0, 1}

\* A tracker command failed after an issue had been created, and run() returned.
C9_Witness ==
    /\ pc = "done"
    /\ execErr.failed
    /\ creation.Created > 0

\* The findings of a rule in a result.
OfRule(vr, rule) == SelectSeq(vr.errors, LAMBDA e : e.rule = rule)

\* C11: every task whose task_id occurs at an earlier index gets exactly one V2
\* error at its path, whose message gives the index of the first occurrence of
\* that id; the other tasks get none, so distinct ids give no V2 error.
C11_DuplicateCitesFirst ==
    pc = "checked" =>
        LET ts == data.graph.tasks
            v2 == OfRule(result.res[1], "V2")
            Earlier(i) == {j \in 1..(i - 1) : ts[j].task_id = ts[i].task_id}
            First(i) == CHOOSE j \in Earlier(i) : \A k \in Earlier(i) : j <= k
            At(i) == SelectSeq(v2, LAMBDA e : e.path = TaskPath(i, "task_id"))
        IN  /\ \A i \in 1..Len(ts) :
                    IF Earlier(i) = {} THEN At(i) = <<>>
                    ELSE /\ Len(At(i)) = 1
                         /\ At(i)[1].severity = SeverityError
                         /\ At(i)[1].message =
                                "Duplicate task_id '" \o ts[i].task_id
                                    \o "' - first occurrence at tasks[" \o Itoa(First(i) - 1) \o "]."
            /\ Len(v2) = Cardinality({i \in 1..Len(ts) : Earlier(i) # {}})

\* Tier 2 ran on the document: the schema found nothing and the bytes decoded.
SemanticRan == Returned(result) /\ data.violations = {}

\* C12: for every depends_on entry naming an id no task has, the result is
\* invalid and holds exactly one V4 error for that entry (at the referrer's
\* depends_on path, context the missing id, message naming the referrer and the
\* id); entries that resolve give no V4 error.
C12_DanglingReference ==
    SemanticRan =>
        LET ts == ParsedGraph(data, flags.mode).tasks
            ids == {ts[i].task_id : i \in 1..Len(ts)}
            v4 == OfRule(result.res[1], "V4")
            Entries(i, d) == {k \in 1..Len(ParseDependsOn(ts[i]).items) :
                                    ParseDependsOn(ts[i]).items[k] = d}
            For(i, d) == SelectSeq(v4, LAMBDA e : e.path = TaskPath(i, "depends_on")
                                                    /\ e.context = d)
        IN  /\ \A i \in 1..Len(ts) : \A d \in TaskIds :
                    IF d \in ids THEN For(i, d) = <<>>
                    ELSE /\ Len(For(i, d)) = Cardinality(Entries(i, d))
                         /\ Entries(i, d) # {} => ~result.res[1].valid
                         /\ \A n \in 1..Len(For(i, d)) :
                                /\ For(i, d)[n].severity = SeverityError
                                /\ For(i, d)[n].message =
                                        "Task '" \o ts[i].task_id \o "' depends on '" \o d
                                            \o "', but no task with that task_id exists in the graph."
            /\ \A n \in 1..Len(v4) :
                    \E i \in 1..Len(ts) : \E d \in TaskIds \ ids : v4[n] \in Range(For(i, d))

\* A task that depends on an id no task has went through Tier 2.
C12_Witness ==
    /\ SemanticRan
    /\ LET ts == ParsedGraph(data, flags.mode).tasks
       IN  \E i \in 1..Len(ts) : \E d \in Range(ParseDependsOn(ts[i]).items) :
                d \notin {ts[j].task_id : j \in 1..Len(ts)}

\* The resolved edges <<dependency, dependent>> of a graph, as a set.
EdgeSet(g) == Range(ResolvedEdges(g, TaskIndex(g)))

RECURSIVE ReachableIn(_, _, _)
\* The ids reached from the ids in S by 1..n edges of E.
ReachableIn(E, S, n) ==
    LET step == {e[2] : e \in {x \in E : x[1] \in S}}
    IN  IF n = 0 THEN {} ELSE step \cup ReachableIn(E, step, n - 1)

\* id lies on a directed cycle of E.
OnCycle(E, id) == id \in ReachableIn(E, {id}, Cardinality(E))

\* text lists ids separated by ", " and id is one of them.
ListNames(text, id) ==
    \E S \in SUBSET TaskIds : id \in S /\ \E o \in Orders(S) : text = Join(o, ", ")

\* C13: when the resolved dependency edges hold a directed cycle, the result is
\* invalid and holds a V5 error on the task list whose context and message list
\* every id lying on a cycle.
C13_CycleNamesMembers ==
    SemanticRan =>
        LET g == ParsedGraph(data, flags.mode)
            on == {id \in TaskIds : OnCycle(EdgeSet(g), id)}
            v5 == SelectSeq(OfRule(result.res[1], "V5"), LAMBDA e : e.path = "tasks")
        IN  on # {} =>
                /\ ~result.res[1].valid
                /\ Len(v5) >= 1
                /\ \E n \in 1..Len(v5) :
                        /\ v5[n].severity = SeverityError
                        /\ \A id \in on : ListNames(v5[n].context, id)
                        /\ \E c \in 1..Cardinality(TaskIds) :
                            v5[n].message = "Dependency graph contains a cycle. " \o Itoa(c)
                                \o " task(s) are involved: [" \o v5[n].context \o "]."

\* Two different tasks that depend on each other went through Tier 2.
C13_Witness ==
    /\ SemanticRan
    /\ \E x, y \in TaskIds :
            /\ x # y
            /\ <<x, y>> \in EdgeSet(ParsedGraph(data, flags.mode))
            /\ <<y, x>> \in EdgeSet(ParsedGraph(data, flags.mode))

\* The number of findings of a severity in a result.
CountOf(vr, sev) == Cardinality({i \in 1..Len(vr.errors) : vr.errors[i].severity = sev})

\* What holds of a result after each AddError call, and of run()'s branch on it.
C14_State ==
    LET vr == result.res[1]
    IN  /\ vr.valid <=> ~HasError(vr)
        /\ vr.valid <=> (vr.stats.error_count = 0)
        /\ vr.stats.error_count = CountOf(vr, SeverityError)
        /\ pc = "beads" => ~HasError(vr)
        /\ (pc # "adding" /\ ~HasError(vr)) =>
                IF flags.createBeads THEN pc = "beads" /\ exitCode = NoExit
                ELSE pc = "done" /\ exitCode = 0
        /\ (pc # "adding" /\ HasError(vr)) => (pc = "done" /\ exitCode = 1)

\* C14: after any sequence of AddError calls on a fresh result, Valid is true
\* exactly when no ERROR finding was recorded (ErrorCount = 0); once false it
\* stays false; warnings and infos leave it true, and run() hands a result with
\* only such findings on to command building.
C14_ValidIffNoError ==
    /\ [](Returned(result) => C14_State)
    /\ [][(Returned(result) /\ ~result.res[1].valid) => ~result'.res[1].valid]_vars

\* A result holding warnings and no error was handed on to command building.
C14_Witness ==
    /\ pc = "beads"
    /\ CountOf(result.res[1], SeverityWarning) > 1
    /\ CountOf(result.res[1], SeverityError) = 0

\* The positions in args of the argument that follows the flag.
ValuesOf(args, flag) == {j \in 2..Len(args) : args[j - 1] = Arg(flag)}

\* The commands have been built.
Built == cmds # <<>>

\* C15: the epic's title is the caller's override when one is given; otherwise
\* it is derived from the first milestone's name when the graph has a milestone;
\* otherwise from the filename when there is one other than "-"; otherwise it is
\* the stdin placeholder.
C15_EpicTitleRanked ==
    (Built /\ flags.mode = ModeTaskGraph) =>
        LET graph == result.res[1].graph[1]
            epic == cmds[1]
            at == ValuesOf(epic.Args, "--title")
        IN  /\ epic.Type = "create-epic"
            /\ Cardinality(at) = 1
            /\ \A j \in at :
                    epic.Args[j] =
                        IF flags.epicTitle # <<>> THEN flags.epicTitle
                        ELSE IF Len(graph.milestones) > 0
                        THEN <<"Task Graph: ", graph.milestones[1].name>>
                        ELSE IF flags.args[1] \notin {"", "-"}
                        THEN <<"Task Graph: ", flags.args[1]>>
                        ELSE <<"Task Graph: (stdin)">>

\* An epic was built with an override given for a graph that has a milestone.
C15_Witness ==
    /\ Built
    /\ flags.mode = ModeTaskGraph
    /\ flags.epicTitle # <<>>
    /\ Len(result.res[1].graph[1].milestones) > 0

\* The task of the graph a create-task command was built for.
TaskOf(cmd) ==
    LET ts == result.res[1].graph[1].tasks
    IN  ts[CHOOSE i \in 1..Len(ts) : ts[i].task_id = cmd.TaskID]

\* The positions of the create-task commands, and of all create commands.
CreateTaskCmds == {k \in 1..Len(cmds) : cmds[k].Type = "create-task"}

CreateCmds == {k \in 1..Len(cmds) : IsCreate(cmds[k].Type)}

\* The minutes of the four estimates the mapping knows (lower-cased input).
KnownMinutes ==
    [e \in {"trivial", "small", "medium", "large"} |->
        CASE e = "trivial" -> 15 [] e = "small" -> 60 [] e = "medium" -> 240 [] e = "large" -> 480]

\* C16: a create-task command for a task whose estimate is trivial, small,
\* medium or large carries --estimate 15, 60, 240 or 480; for "unknown", the
\* empty or any other estimate it carries no --estimate argument; no create
\* command carries an estimate of 0.
C16_EstimateOmitted ==
    Built =>
        /\ \A k \in CreateTaskCmds :
                LET e == ToLower(TaskOf(cmds[k]).estimate)
                    at == ValuesOf(cmds[k].Args, "--estimate")
                IN  IF e \in DOMAIN KnownMinutes
                    THEN /\ Cardinality(at) = 1
                         /\ \A j \in at : cmds[k].Args[j] = Arg(Itoa(KnownMinutes[e]))
                    ELSE /\ at = {}
                         /\ Arg("--estimate") \notin Range(cmds[k].Args)
        /\ \A k \in CreateCmds : \A j \in ValuesOf(cmds[k].Args, "--estimate") :
                cmds[k].Args[j] # Arg("0")

\* A create-task command was built for a task whose estimate is "unknown".
C16_Witness ==
    /\ Built
    /\ \E k \in CreateTaskCmds : TaskOf(cmds[k]).estimate = "unknown"

\* The integers of the four priorities the mapping knows.
KnownPriority ==
    [p \in {"critical", "high", "medium", "low"} |->
        CASE p = "critical" -> 0 [] p = "high" -> 1 [] p = "medium" -> 2 [] p = "low" -> 3]

\* The single --priority value of a command, as text ("" when it has not exactly one).
PriorityArg(cmd) ==
    LET at == ValuesOf(cmd.Args, "--priority")
    IN  IF Cardinality(at) = 1 THEN cmd.Args[CHOOSE j \in at : TRUE] ELSE <<>>

\* C17 as stated: critical, high, medium, low give 0, 1, 2, 3 and every other
\* string, the empty one included, gives 2.
C17_EveryOtherStringIsTwo ==
    Built =>
        \A k \in CreateTaskCmds :
            LET p == TaskOf(cmds[k]).priority
            IN  PriorityArg(cmds[k]) =
                    Arg(Itoa(IF p \in DOMAIN KnownPriority THEN KnownPriority[p] ELSE 2))

\* C17: the priority is compared lower-cased: a string that lower-cases to
\* critical, high, medium or low gives 0, 1, 2, 3, every other string, the empty
\* one included, gives 2; the value is always in 0..3 and every create command
\* carries exactly one --priority argument.
C17_PriorityTotal ==
    Built =>
        /\ \A k \in CreateTaskCmds :
                LET p == ToLower(TaskOf(cmds[k]).priority)
                IN  PriorityArg(cmds[k]) =
                        Arg(Itoa(IF p \in DOMAIN KnownPriority THEN KnownPriority[p] ELSE 2))
        /\ \A k \in CreateCmds : \E n \in 0..3 : PriorityArg(cmds[k]) = Arg(Itoa(n))

\* A create-task command was built for a task whose priority is written HIGH.
C17_Witness ==
    /\ Built
    /\ \E k \in CreateTaskCmds : TaskOf(cmds[k]).priority = "HIGH"

\* The section headings in the order ComposeDescription writes them, with the
\* source field of each.
SectionHeadings ==
    << [field |-> "inputs", heading |-> "\n\n## Inputs\n"],
       [field |-> "outputs", heading |-> "\n## Outputs\n"],
       [field |-> "constraints", heading |-> "\n## Constraints\n"],
       [field |-> "non_goals", heading |-> "\n## Non-Goals\n"],
       [field |-> "error_cases", heading |-> "\n## Error Cases\n"] >>

\* The source field of a section is a list with at least one item.
NonEmptyList(task, field) ==
    CASE field = "inputs" -> task.inputs # <<>>
      [] field = "outputs" -> task.outputs # <<>>
      [] field = "constraints" -> task.constraints.kind = "list" /\ task.constraints.items # <<>>
      [] field = "non_goals" -> task.non_goals # <<>>
      [] field = "error_cases" -> task.error_cases # <<>>

IsHeading(atom) == \E i \in 1..Len(SectionHeadings) : SectionHeadings[i].heading = atom

\* The --description value of a command.
DescriptionOf(cmd) == cmd.Args[CHOOSE j \in ValuesOf(cmd.Args, "--description") : TRUE]

\* C18: the description of a create-task command starts with the goal; after it
\* come the sections Inputs, Outputs, Constraints, Non-Goals, Error Cases in
\* that order, each present exactly when its source field is a non-empty list
\* (absent, empty and N/A sources give no section); every heading is followed
\* by an item; a task with no such field has exactly its goal as description.
C18_DescriptionSections ==
    Built =>
        \A k \in CreateTaskCmds :
            LET task == TaskOf(cmds[k])
                d == DescriptionOf(cmds[k])
                wanted == SelectSeq(SectionHeadings, LAMBDA h : NonEmptyList(task, h.field))
                found == SelectSeq(d, IsHeading)
            IN  /\ Cardinality(ValuesOf(cmds[k].Args, "--description")) = 1
                /\ Len(d) >= Len(task.goal)
                /\ SubSeq(d, 1, Len(task.goal)) = task.goal
                /\ found = [i \in 1..Len(wanted) |-> wanted[i].heading]
                /\ Len(d) > Len(task.goal) => IsHeading(d[Len(task.goal) + 1])
                /\ \A j \in 1..Len(d) :
                        IsHeading(d[j]) => j < Len(d) /\ d[j + 1] \in {"- **", "- "}
                /\ wanted = <<>> => d = task.goal

\* A create-task command was built for a task with non-goals, without inputs and
\* with constraints marked N/A.
C18_Witness ==
    /\ Built
    /\ \E k \in CreateTaskCmds :
            LET task == TaskOf(cmds[k])
            IN  /\ task.non_goals # <<>>
                /\ task.inputs = <<>>
                /\ task.constraints.kind = "na"

\* C19: the substitution table is write-once: a step of the executor leaves
\* every entry the table already holds in place with its value, and a create
\* command adds exactly the entry of its own placeholder.
C19_WriteOnce ==
    [][/\ \A key \in DOMAIN idMap : key \in DOMAIN idMap' /\ idMap'[key] = idMap[key]
       /\ (pc = "execute" /\ next' = next + 1 /\ IsCreate(cmds[next].Type))
            => Cardinality(DOMAIN idMap') = Cardinality(DOMAIN idMap) + 1]_vars

\* C20: whatever the earlier checks recorded, the result of one
\* ValidateTaskGraph call lists, in the order of the checks V2, V4, V5, V6, V7,
\* V9, V10, MILESTONE, exactly the findings each of the eight checks makes on
\* the graph taken by itself (the V4 check files a self-dependency under V5).
C20_NoShortCircuit ==
    (pc = "checked") =>
        LET g == data.graph
            errs == result.res[1].errors
        IN  \E zo \in Orders(ZeroDegreeIds(g)), mo \in Orders(CycleMemberIds(g)) :
                errs = checkUniqueTaskIDs(g)
                       \o checkDependencyReferences(g, TaskIndex(g))
                       \o checkDAGAcyclicity(g, TaskIndex(g), zo, mo)
                       \o checkGoalQuality(g)
                       \o checkAcceptanceQuality(g)
                       \o checkContextualFields(g)
                       \o checkFilesScope(g)
                       \o checkMilestones(g, TaskIndex(g))

\* A call in which the first check recorded an error and the goal, acceptance,
\* contextual-field, files-scope and milestone checks each found something too.
C20_Witness ==
    /\ pc = "checked"
    /\ \E i \in 1..Len(result.res[1].errors) :
            /\ result.res[1].errors[i].rule = "V2"
            /\ result.res[1].errors[i].severity = SeverityError
    /\ {"V6", "V7", "V9", "V10", "MILESTONE"} \subseteq Rules(result.res[1])

\* The graph-level V5 errors of a result (path "tasks").
CycleErrors(vr) == SelectSeq(OfRule(vr, "V5"), LAMBDA e : e.path = "tasks")

\* The ids of a graph that lie on a directed cycle of its resolved edges.
CycleIds(g) == {id \in TaskIds : OnCycle(EdgeSet(g), id)}

\* C21: the cycle check reports a graph-level V5 error exactly when the
\* resolved dependency edges hold a directed cycle, so a graph with acyclic
\* edges gets none, whatever dangling references or duplicate ids it has.
C21_CycleErrorIffCycle ==
    (pc = "checked") =>
        (Len(CycleErrors(result.res[1])) >= 1 <=> CycleIds(data.graph) # {})

\* The ids on a cycle of the resolved edges or reached from one: those whose
\* in-degree cannot reach zero.
StuckIds(g) ==
    CycleIds(g) \cup ReachableIn(EdgeSet(g), CycleIds(g), Cardinality(EdgeSet(g)))

\* C22: every graph-level V5 error lists exactly the ids that lie on a
\* dependency cycle or depend, directly or not, on one that does; the size it
\* reports is the size of that set, which is at least 1.
C22_MembersAreStuckIds ==
    (pc = "checked") =>
        LET stuck == StuckIds(data.graph)
            v5 == CycleErrors(result.res[1])
        IN  \A n \in 1..Len(v5) :
                /\ Cardinality(stuck) >= 1
                /\ \E o \in Orders(stuck) :
                        /\ v5[n].context = Join(o, ", ")
                        /\ v5[n].message = "Dependency graph contains a cycle. "
                                \o Itoa(Cardinality(stuck)) \o " task(s) are involved: ["
                                \o Join(o, ", ") \o "]."

\* The depends_on entries of the i-th task that name the task itself.
SelfEntries(ts, i) ==
    {k \in 1..Len(ParseDependsOn(ts[i]).items) :
        ParseDependsOn(ts[i]).items[k] = ts[i].task_id}

\* C23: a task gets one V5 error at its depends_on path for each entry of its
\* depends_on that is its own id, with that id as context; these errors come
\* from the reference check, so they stand before any graph-level cycle error
\* (path "tasks"), and no V4 error is reported for such an entry.
C23_SelfDependency ==
    (pc = "checked") =>
        LET ts == data.graph.tasks
            errs == result.res[1].errors
            At(i, rule) == SelectSeq(errs, LAMBDA e : e.rule = rule
                                                      /\ e.path = TaskPath(i, "depends_on"))
        IN  /\ \A i \in 1..Len(ts) :
                    /\ Len(At(i, "V5")) = Cardinality(SelfEntries(ts, i))
                    /\ \A n \in 1..Len(At(i, "V5")) :
                            /\ At(i, "V5")[n].severity = SeverityError
                            /\ At(i, "V5")[n].context = ts[i].task_id
                            /\ At(i, "V5")[n].message = "Task '" \o ts[i].task_id
                                    \o "' depends on itself - this creates a trivial cycle."
                    /\ \A n \in 1..Len(At(i, "V4")) : At(i, "V4")[n].context # ts[i].task_id
            /\ \A m, n \in 1..Len(errs) :
                    (errs[m].rule = "V5" /\ errs[m].path = "tasks"
                        /\ errs[n].rule = "V5" /\ errs[n].path # "tasks") => n < m

\* A task that names itself twice in its depends_on was checked, and the
\* graph-level cycle error was reported as well.
C23_Witness ==
    /\ pc = "checked"
    /\ \E i \in 1..Len(data.graph.tasks) : Cardinality(SelfEntries(data.graph.tasks, i)) = 2
    /\ Len(CycleErrors(result.res[1])) >= 1

\* C24: a task whose name begins with implement, add, fix, create, build or
\* write in any letter case gets a V10 warning exactly when its files_scope is
\* neither a non-empty list nor the N/A marker, so also when it is an empty
\* list; a task with another name gets none.
C24_ScopeWarning ==
    (pc = "checked") =>
        LET ts == data.graph.tasks
            v10 == OfRule(result.res[1], "V10")
            At(i) == SelectSeq(v10, LAMBDA e : e.path = TaskPath(i, "files_scope"))
            Impl(i) == ToLower(ts[i].task_name[1])
                            \in {"implement", "add", "fix", "create", "build", "write"}
            Scoped(i) == \/ ts[i].files_scope.kind = "na"
                         \/ ts[i].files_scope.kind = "list" /\ ts[i].files_scope.items # <<>>
        IN  /\ \A i \in 1..Len(ts) :
                    IF Impl(i) /\ ~Scoped(i)
                    THEN Len(At(i)) = 1 /\ At(i)[1].severity = SeverityWarning
                    ELSE At(i) = <<>>
            /\ Len(v10) = Cardinality({i \in 1..Len(ts) : Impl(i) /\ ~Scoped(i)})

\* The graph the commands were built from, and the Creator that built them.
BuiltGraph == result.res[1].graph[1]

BuiltBy == [DryRun |-> flags.dryRun, EpicTitle |-> flags.epicTitle, Filename |-> flags.args[1]]

GraphBuilt == Built /\ flags.mode = ModeTaskGraph

\* The ids the i-th task of a graph depends on, those no task has left out.
DepsOf(g, i) ==
    {d \in Range(ParseDependsOn(g.tasks[i]).items) :
        \E j \in 1..Len(g.tasks) : g.tasks[j].task_id = d}

\* The members of a set of task positions, in document order.
InDocumentOrder(S, n) == SelectSeq([i \in 1..n |-> i], LAMBDA i : i \in S)

RECURSIVE ReferenceKahn(_, _, _)
\* Kahn's procedure with a FIFO queue of task positions: the head is emitted, and
\* the tasks that depend on it and have all their dependencies emitted by now
\* join the queue in document order.
ReferenceKahn(g, queue, emitted) ==
    IF queue = <<>> THEN emitted
    ELSE LET head == Head(queue)
             out == Append(emitted, head)
             done == {g.tasks[i].task_id : i \in Range(out)}
             ready == {j \in 1..Len(g.tasks) :
                          /\ j \notin Range(out) \cup Range(queue)
                          /\ g.tasks[head].task_id \in DepsOf(g, j)
                          /\ DepsOf(g, j) \subseteq done}
         IN  ReferenceKahn(g, Tail(queue) \o InDocumentOrder(ready, Len(g.tasks)), out)

\* The reference order of a graph: the queue starts with the tasks without
\* dependencies, in document order.
ReferenceOrder(g) ==
    ReferenceKahn(g, InDocumentOrder({i \in 1..Len(g.tasks) : DepsOf(g, i) = {}},
                                     Len(g.tasks)), <<>>)

\* The task ids of the create-task commands, in the order of the list.
CreatedIds == [k \in 1..Len(SelectSeq(cmds, LAMBDA c : c.Type = "create-task")) |->
                    SelectSeq(cmds, LAMBDA c : c.Type = "create-task")[k].TaskID]

RECURSIVE EntryCount(_)
EntryCount(tasks) ==
    IF tasks = <<>> THEN 0
    ELSE Len(ParseDependsOn(Head(tasks)).items) + EntryCount(Tail(tasks))

\* The positions of the commands of a type.
CmdsOfType(type) == {k \in 1..Len(cmds) : cmds[k].Type = type}

\* C26: for a validated graph of n tasks with m depends_on entries the list
\* holds 1 + 2n + m commands: the create-epic, then one create-task per task,
\* then one dep-add per entry with the arguments (dependent, dependency), then
\* one update-design per task; so a dep-add follows the create commands of both
\* its tasks, and [A, B depending on A] gives create A, create B, dep-add (B, A).
C26_FourPhases ==
    GraphBuilt =>
        LET ts == BuiltGraph.tasks
            n == Len(ts)
            m == EntryCount(ts)
            Entries(x, y) == {<<i, k>> \in (1..n) \X (1..MaxDeps) :
                                /\ ts[i].task_id = x
                                /\ k <= Len(ParseDependsOn(ts[i]).items)
                                /\ ParseDependsOn(ts[i]).items[k] = y}
        IN  /\ Len(cmds) = 1 + 2 * n + m
            /\ \A k \in 1..Len(cmds) :
                    cmds[k].Type = IF k = 1 THEN "create-epic"
                                   ELSE IF k <= 1 + n THEN "create-task"
                                   ELSE IF k <= 1 + n + m THEN "dep-add"
                                   ELSE "update-design"
            /\ \A i \in 1..n :
                    /\ Cardinality({k \in CmdsOfType("create-task") :
                                        cmds[k].TaskID = ts[i].task_id}) = 1
                    /\ Cardinality({k \in CmdsOfType("update-design") :
                                        cmds[k].TaskID = ts[i].task_id}) = 1
            /\ \A x, y \in TaskIds :
                    Cardinality({k \in CmdsOfType("dep-add") :
                                    cmds[k].DepTaskID = x /\ cmds[k].DepOnID = y})
                        = Cardinality(Entries(x, y))
            /\ \A k \in CmdsOfType("dep-add") :
                    /\ cmds[k].Args = <<Arg("dep"), Arg("add"),
                                        Arg(Placeholder(cmds[k].DepTaskID)),
                                        Arg(Placeholder(cmds[k].DepOnID))>>
                    /\ \A id \in {cmds[k].DepTaskID, cmds[k].DepOnID} :
                            \E j \in CmdsOfType("create-task") : j < k /\ cmds[j].TaskID = id
            /\ (/\ n = 2
                /\ ParseDependsOn(ts[1]).items = <<>>
                /\ ParseDependsOn(ts[2]).items = <<ts[1].task_id>>)
                => /\ cmds[2].TaskID = ts[1].task_id
                   /\ cmds[3].TaskID = ts[2].task_id
                   /\ cmds[4].Type = "dep-add"
                   /\ cmds[4].DepTaskID = ts[2].task_id
                   /\ cmds[4].DepOnID = ts[1].task_id

\* Commands were built for the graph of a task without dependencies followed by
\* a task that depends on it.
C26_Witness ==
    /\ GraphBuilt
    /\ Len(BuiltGraph.tasks) = 2
    /\ ParseDependsOn(BuiltGraph.tasks[1]).items = <<>>
    /\ ParseDependsOn(BuiltGraph.tasks[2]).items = <<BuiltGraph.tasks[1].task_id>>

\* C27: in graph mode every create-task command that is run has one --parent
\* argument, and it is the identifier the tracker returned for the create-epic
\* command of the run, not another identifier and not the placeholder.
C27_ParentIsEpic ==
    flags.mode = ModeTaskGraph =>
        \A n \in 1..Len(CommandProcs) :
            LET p == CommandProcs[n]
            IN  cmds[p.index].Type = "create-task" =>
                    /\ cmds[1].Type = "create-epic"
                    /\ CommandProcs[1].ok
                    /\ Cardinality(ValuesOf(p.args, "--parent")) = 1
                    /\ \A j \in ValuesOf(p.args, "--parent") :
                            p.args[j] = Arg(CommandProcs[1].out)

\* C28: a command is run with every argument other than its identifier
\* arguments (the value of --parent, the two ids of dep add, the target of
\* update) exactly as the builder made it, whatever text the document holds.
C28_OnlyIdentifiersReplaced ==
    \A n \in 1..Len(CommandProcs) :
        LET p == CommandProcs[n]
            cmd == cmds[p.index]
        IN  /\ Len(p.args) = Len(cmd.Args)
            /\ \A j \in 1..Len(cmd.Args) :
                    j \notin IdArgPositions(cmd) => p.args[j] = cmd.Args[j]

\* The least of a non-empty set of numbers.
Least(S) == CHOOSE x \in S : \A y \in S : x <= y

\* C29: the --priority of the create-epic command is the least (the most
\* urgent) of the mapped priorities of the tasks of the graph, also when every
\* task has priority low.
C29_EpicPriorityIsBest ==
    GraphBuilt =>
        LET ts == BuiltGraph.tasks
        IN  PriorityArg(cmds[1]) =
                Arg(Itoa(Least({MapPriority(ts[i].priority) : i \in 1..Len(ts)})))

\* No member of the sequence occurs in it twice.
NoRepeat(seq) == \A i, j \in 1..Len(seq) : i # j => seq[i] # seq[j]

\* C30: on every graph both Kahn loops end, having enqueued and dequeued each
\* task id at most once and with no in-degree below zero; and topologicalSort
\* returns exactly the tasks that are neither on a cycle nor downstream of one.
C30_KahnLoopsBounded ==
    (pc = "built") =>
        LET g == data.graph
            ids == {g.tasks[i].task_id : i \in 1..Len(g.tasks)}
            sorted == topologicalSortTrace(g)
        IN  /\ \A zo \in Orders(ZeroDegreeIds(g)) :
                    LET checked == checkDAGAcyclicityTrace(g, zo)
                    IN  /\ Len(checked[1]) = KahnResult(g, TaskIndex(g), zo)[1]
                        /\ NoRepeat(checked[1])
                        /\ \A id \in ids : checked[2][id] >= 0
            /\ CreatedIds = sorted[1]
            /\ NoRepeat(sorted[1])
            /\ \A id \in ids : sorted[2][id] >= 0
            /\ Range(sorted[1]) = ids \ StuckIds(g)

====
